---- MODULE Spec2Model ----
(***************************************************************************)
(* Schema comparator (diff/comparator.rs) and the two SQL generators       *)
(* (db/mysql.rs, db/postgres.rs) of database-structure-sync.               *)
(*                                                                         *)
(* Representation of Rust values:                                          *)
(*   String        a sequence of tokens.  The characters of identifiers,   *)
(*                 comments and decimal numbers are one token each; every  *)
(*                 literal fragment of a format string is one token; an    *)
(*                 opaque dialect-native string (data type, default,       *)
(*                 action keyword, index type) is one token.               *)
(*   Option<T>     <<>> for None, <<x>> for Some(x).                       *)
(*   Vec<T>        a sequence.                                             *)
(*   HashMap       built from a Vec by collect(): probed by key only, a    *)
(*                 later entry of the same key replaces an earlier one.    *)
(***************************************************************************)
EXTENDS Integers, Sequences, FiniteSets, TLC

\* ------------------------------------------------------------------------
\* Bounds of the model
\* ------------------------------------------------------------------------
MaxTables == 3

MaxChildren == 2

\* ------------------------------------------------------------------------
\* Strings
\* ------------------------------------------------------------------------
\* the grave accent U+0060, the MySQL identifier delimiter
Backtick == "U+0060"

DoubleQuote == "\""

Apostrophe == "'"

None == <<>>

Some(x) == <<x>>

IsSome(o) == Len(o) = 1

Unwrap(o) == o[1]

RECURSIVE Replace(_, _, _)
\* str::replace(from, to) for a one-character pattern
Replace(s, from, to) ==
  IF s = <<>> THEN <<>>
  ELSE (IF Head(s) = from THEN to ELSE <<Head(s)>>) \o Replace(Tail(s), from, to)

RECURSIVE Join(_, _)
\* [String]::join(sep)
Join(strs, sep) ==
  IF strs = <<>> THEN <<>>
  ELSE IF Len(strs) = 1 THEN strs[1]
  ELSE strs[1] \o <<sep>> \o Join(Tail(strs), sep)

Digits == <<"0", "1", "2", "3", "4", "5", "6", "7", "8", "9">>

RECURSIVE to_string(_)
\* u32 / usize to_string(): the decimal digits, most significant first
to_string(n) ==
  IF n < 10 THEN <<Digits[n + 1]>>
  ELSE to_string(n \div 10) \o <<Digits[(n % 10) + 1]>>

\* ------------------------------------------------------------------------
\* SqlGenerator for MySqlDriver
\* ------------------------------------------------------------------------
MySql_quote_identifier(name) ==
  <<Backtick>> \o Replace(name, Backtick, <<Backtick, Backtick>>) \o <<Backtick>>

\* names.iter().map(|c| self.quote_identifier(c)).collect()
MySql_quote_all(names) == [i \in 1..Len(names) |-> MySql_quote_identifier(names[i])]

\* the modifiers pushed after "<name> <type>" of a column definition
MySql_column_modifiers(col) ==
     (IF ~col.nullable THEN <<" NOT NULL">> ELSE <<>>)
  \o (IF IsSome(col.default_value)
        THEN <<" DEFAULT ">> \o Unwrap(col.default_value) ELSE <<>>)
  \o (IF col.auto_increment THEN <<" AUTO_INCREMENT">> ELSE <<>>)
  \o (IF IsSome(col.comment)
        THEN <<" COMMENT ", Apostrophe>>
             \o Replace(Unwrap(col.comment), Apostrophe, <<Apostrophe, Apostrophe>>)
             \o <<Apostrophe>>
        ELSE <<>>)

MySql_col_def(col) ==
  <<"  ">> \o MySql_quote_identifier(col.name) \o <<" ">> \o col.data_type
  \o MySql_column_modifiers(col)

MySql_pk_part(pk) ==
  <<"  PRIMARY KEY (">> \o Join(MySql_quote_all(pk.columns), ", ") \o <<")">>

MySql_index_part(idx) ==
  <<"  ">> \o (IF idx.unique THEN <<"UNIQUE INDEX">> ELSE <<"INDEX">>) \o <<" ">>
  \o MySql_quote_identifier(idx.name)
  \o <<" (">> \o Join(MySql_quote_all(idx.columns), ", ") \o <<")">>

MySql_unique_part(uc) ==
  <<"  CONSTRAINT ">> \o MySql_quote_identifier(uc.name)
  \o <<" UNIQUE (">> \o Join(MySql_quote_all(uc.columns), ", ") \o <<")">>

MySql_fk_part(fk) ==
  <<"  CONSTRAINT ">> \o MySql_quote_identifier(fk.name)
  \o <<" FOREIGN KEY (">> \o Join(MySql_quote_all(fk.columns), ", ")
  \o <<") REFERENCES ">> \o MySql_quote_identifier(fk.ref_table)
  \o <<" (">> \o Join(MySql_quote_all(fk.ref_columns), ", ")
  \o <<") ON DELETE ">> \o fk.on_delete \o <<" ON UPDATE ">> \o fk.on_update

MySql_generate_create_table(table) ==
  LET parts ==
           [i \in 1..Len(table.columns) |-> MySql_col_def(table.columns[i])]
        \o (IF IsSome(table.primary_key)
              THEN <<MySql_pk_part(Unwrap(table.primary_key))>> ELSE <<>>)
        \o [i \in 1..Len(table.indexes) |-> MySql_index_part(table.indexes[i])]
        \o [i \in 1..Len(table.unique_constraints) |-> MySql_unique_part(table.unique_constraints[i])]
        \o [i \in 1..Len(table.foreign_keys) |-> MySql_fk_part(table.foreign_keys[i])]
  IN  <<"CREATE TABLE ">> \o MySql_quote_identifier(table.name) \o <<" (\n">>
      \o Join(parts, ",\n") \o <<"\n);">>

MySql_generate_drop_table(table_name) ==
  <<"DROP TABLE ">> \o MySql_quote_identifier(table_name) \o <<";">>

MySql_generate_add_column(table, column) ==
  <<"ALTER TABLE ">> \o MySql_quote_identifier(table)
  \o <<" ADD COLUMN ">> \o MySql_quote_identifier(column.name)
  \o <<" ">> \o column.data_type
  \o MySql_column_modifiers(column) \o <<";">>

MySql_generate_drop_column(table, column_name) ==
  <<"ALTER TABLE ">> \o MySql_quote_identifier(table)
  \o <<" DROP COLUMN ">> \o MySql_quote_identifier(column_name) \o <<";">>

MySql_generate_modify_column(table, column) ==
  <<"ALTER TABLE ">> \o MySql_quote_identifier(table)
  \o <<" MODIFY COLUMN ">> \o MySql_quote_identifier(column.name)
  \o <<" ">> \o column.data_type
  \o MySql_column_modifiers(column) \o <<";">>

MySql_generate_add_index(table, index) ==
  <<"CREATE ">> \o (IF index.unique THEN <<"UNIQUE INDEX">> ELSE <<"INDEX">>)
  \o <<" ">> \o MySql_quote_identifier(index.name)
  \o <<" ON ">> \o MySql_quote_identifier(table)
  \o <<" (">> \o Join(MySql_quote_all(index.columns), ", ") \o <<");">>

MySql_generate_drop_index(table, index_name) ==
  <<"DROP INDEX ">> \o MySql_quote_identifier(index_name)
  \o <<" ON ">> \o MySql_quote_identifier(table) \o <<";">>

MySql_generate_add_foreign_key(table, fk) ==
  <<"ALTER TABLE ">> \o MySql_quote_identifier(table)
  \o <<" ADD CONSTRAINT ">> \o MySql_quote_identifier(fk.name)
  \o <<" FOREIGN KEY (">> \o Join(MySql_quote_all(fk.columns), ", ")
  \o <<") REFERENCES ">> \o MySql_quote_identifier(fk.ref_table)
  \o <<" (">> \o Join(MySql_quote_all(fk.ref_columns), ", ")
  \o <<") ON DELETE ">> \o fk.on_delete \o <<" ON UPDATE ">> \o fk.on_update
  \o <<";">>

MySql_generate_drop_foreign_key(table, fk_name) ==
  <<"ALTER TABLE ">> \o MySql_quote_identifier(table)
  \o <<" DROP FOREIGN KEY ">> \o MySql_quote_identifier(fk_name) \o <<";">>

MySql_generate_add_unique(table, uc) ==
  <<"ALTER TABLE ">> \o MySql_quote_identifier(table)
  \o <<" ADD CONSTRAINT ">> \o MySql_quote_identifier(uc.name)
  \o <<" UNIQUE (">> \o Join(MySql_quote_all(uc.columns), ", ") \o <<");">>

MySql_generate_drop_unique(table, uc_name) ==
  <<"ALTER TABLE ">> \o MySql_quote_identifier(table)
  \o <<" DROP INDEX ">> \o MySql_quote_identifier(uc_name) \o <<";">>

\* ------------------------------------------------------------------------
\* SqlGenerator for PostgresDriver
\* ------------------------------------------------------------------------
\* quote_identifier that wraps the name as it is
Pg_quote_identifier_unescaped(name) ==
  <<DoubleQuote>> \o name \o <<DoubleQuote>>

Pg_quote_identifier(name) ==
  <<DoubleQuote>> \o Replace(name, DoubleQuote, <<DoubleQuote, DoubleQuote>>)
  \o <<DoubleQuote>>

\* names.iter().map(|c| self.quote_identifier(c)).collect()
Pg_quote_all(names) == [i \in 1..Len(names) |-> Pg_quote_identifier(names[i])]

Pg_data_type(col) == IF col.auto_increment THEN <<"SERIAL">> ELSE col.data_type

\* the modifiers with NOT NULL for every column that is not nullable
Pg_column_modifiers_serial_not_null(col) ==
     (IF ~col.nullable THEN <<" NOT NULL">> ELSE <<>>)
  \o (IF IsSome(col.default_value)
        THEN <<" DEFAULT ">> \o Unwrap(col.default_value) ELSE <<>>)

Pg_column_modifiers(col) ==
     (IF ~col.nullable /\ ~col.auto_increment THEN <<" NOT NULL">> ELSE <<>>)
  \o (IF IsSome(col.default_value)
        THEN <<" DEFAULT ">> \o Unwrap(col.default_value) ELSE <<>>)

Pg_col_def(col) ==
  <<"  ">> \o Pg_quote_identifier(col.name) \o <<" ">> \o Pg_data_type(col)
  \o Pg_column_modifiers(col)

Pg_pk_part(pk) ==
  <<"  PRIMARY KEY (">> \o Join(Pg_quote_all(pk.columns), ", ") \o <<")">>

Pg_unique_part(uc) ==
  <<"  CONSTRAINT ">> \o Pg_quote_identifier(uc.name)
  \o <<" UNIQUE (">> \o Join(Pg_quote_all(uc.columns), ", ") \o <<")">>

Pg_fk_part(fk) ==
  <<"  CONSTRAINT ">> \o Pg_quote_identifier(fk.name)
  \o <<" FOREIGN KEY (">> \o Join(Pg_quote_all(fk.columns), ", ")
  \o <<") REFERENCES ">> \o Pg_quote_identifier(fk.ref_table)
  \o <<" (">> \o Join(Pg_quote_all(fk.ref_columns), ", ")
  \o <<") ON DELETE ">> \o fk.on_delete \o <<" ON UPDATE ">> \o fk.on_update

Pg_generate_add_index(table, index) ==
  <<"CREATE ">> \o (IF index.unique THEN <<"UNIQUE INDEX">> ELSE <<"INDEX">>)
  \o <<" ">> \o Pg_quote_identifier(index.name)
  \o <<" ON ">> \o Pg_quote_identifier(table)
  \o <<" (">> \o Join(Pg_quote_all(index.columns), ", ") \o <<");">>

RECURSIVE Pg_create_indexes(_, _)
\* the CREATE INDEX statements appended after the CREATE TABLE statement
Pg_create_indexes(table_name, indexes) ==
  IF indexes = <<>> THEN <<>>
  ELSE <<"\n">> \o Pg_generate_add_index(table_name, Head(indexes))
       \o Pg_create_indexes(table_name, Tail(indexes))

Pg_generate_create_table(table) ==
  LET parts ==
           [i \in 1..Len(table.columns) |-> Pg_col_def(table.columns[i])]
        \o (IF IsSome(table.primary_key)
              THEN <<Pg_pk_part(Unwrap(table.primary_key))>> ELSE <<>>)
        \o [i \in 1..Len(table.unique_constraints) |-> Pg_unique_part(table.unique_constraints[i])]
        \o [i \in 1..Len(table.foreign_keys) |-> Pg_fk_part(table.foreign_keys[i])]
  IN  <<"CREATE TABLE ">> \o Pg_quote_identifier(table.name) \o <<" (\n">>
      \o Join(parts, ",\n") \o <<"\n);">>
      \o Pg_create_indexes(table.name, table.indexes)

Pg_generate_drop_table(table_name) ==
  <<"DROP TABLE ">> \o Pg_quote_identifier(table_name) \o <<";">>

Pg_generate_add_column(table, column) ==
  <<"ALTER TABLE ">> \o Pg_quote_identifier(table)
  \o <<" ADD COLUMN ">> \o Pg_quote_identifier(column.name)
  \o <<" ">> \o Pg_data_type(column)
  \o Pg_column_modifiers(column) \o <<";">>

Pg_generate_drop_column(table, column_name) ==
  <<"ALTER TABLE ">> \o Pg_quote_identifier(table)
  \o <<" DROP COLUMN ">> \o Pg_quote_identifier(column_name) \o <<";">>

Pg_generate_modify_column(table, column) ==
  <<"ALTER TABLE ">> \o Pg_quote_identifier(table)
  \o <<" ALTER COLUMN ">> \o Pg_quote_identifier(column.name)
  \o <<" TYPE ">> \o Pg_data_type(column) \o <<";">>

Pg_generate_drop_index(table, index_name) ==
  <<"DROP INDEX ">> \o Pg_quote_identifier(index_name) \o <<";">>

Pg_generate_add_foreign_key(table, fk) ==
  <<"ALTER TABLE ">> \o Pg_quote_identifier(table)
  \o <<" ADD CONSTRAINT ">> \o Pg_quote_identifier(fk.name)
  \o <<" FOREIGN KEY (">> \o Join(Pg_quote_all(fk.columns), ", ")
  \o <<") REFERENCES ">> \o Pg_quote_identifier(fk.ref_table)
  \o <<" (">> \o Join(Pg_quote_all(fk.ref_columns), ", ")
  \o <<") ON DELETE ">> \o fk.on_delete \o <<" ON UPDATE ">> \o fk.on_update
  \o <<";">>

\* the drop written with the MySQL keyword
Pg_generate_drop_foreign_key_mysql_keyword(table, fk_name) ==
  <<"ALTER TABLE ">> \o Pg_quote_identifier(table)
  \o <<" DROP FOREIGN KEY ">> \o Pg_quote_identifier(fk_name) \o <<";">>

Pg_generate_drop_foreign_key(table, fk_name) ==
  <<"ALTER TABLE ">> \o Pg_quote_identifier(table)
  \o <<" DROP CONSTRAINT ">> \o Pg_quote_identifier(fk_name) \o <<";">>

Pg_generate_add_unique(table, uc) ==
  <<"ALTER TABLE ">> \o Pg_quote_identifier(table)
  \o <<" ADD CONSTRAINT ">> \o Pg_quote_identifier(uc.name)
  \o <<" UNIQUE (">> \o Join(Pg_quote_all(uc.columns), ", ") \o <<");">>

Pg_generate_drop_unique(table, uc_name) ==
  <<"ALTER TABLE ">> \o Pg_quote_identifier(table)
  \o <<" DROP CONSTRAINT ">> \o Pg_quote_identifier(uc_name) \o <<";">>

\* ------------------------------------------------------------------------
\* &dyn SqlGenerator: dispatch on the driver behind the trait object
\* ------------------------------------------------------------------------
Generators == {"mysql", "postgres"}

generate_create_table(gen, table) ==
  IF gen = "mysql" THEN MySql_generate_create_table(table)
  ELSE Pg_generate_create_table(table)

generate_drop_table(gen, table_name) ==
  IF gen = "mysql" THEN MySql_generate_drop_table(table_name)
  ELSE Pg_generate_drop_table(table_name)

generate_add_column(gen, table, column) ==
  IF gen = "mysql" THEN MySql_generate_add_column(table, column)
  ELSE Pg_generate_add_column(table, column)

generate_drop_column(gen, table, column_name) ==
  IF gen = "mysql" THEN MySql_generate_drop_column(table, column_name)
  ELSE Pg_generate_drop_column(table, column_name)

generate_modify_column(gen, table, column) ==
  IF gen = "mysql" THEN MySql_generate_modify_column(table, column)
  ELSE Pg_generate_modify_column(table, column)

generate_add_index(gen, table, index) ==
  IF gen = "mysql" THEN MySql_generate_add_index(table, index)
  ELSE Pg_generate_add_index(table, index)

generate_drop_index(gen, table, index_name) ==
  IF gen = "mysql" THEN MySql_generate_drop_index(table, index_name)
  ELSE Pg_generate_drop_index(table, index_name)

generate_add_foreign_key(gen, table, fk) ==
  IF gen = "mysql" THEN MySql_generate_add_foreign_key(table, fk)
  ELSE Pg_generate_add_foreign_key(table, fk)

generate_drop_foreign_key(gen, table, fk_name) ==
  IF gen = "mysql" THEN MySql_generate_drop_foreign_key(table, fk_name)
  ELSE Pg_generate_drop_foreign_key(table, fk_name)

generate_add_unique(gen, table, uc) ==
  IF gen = "mysql" THEN MySql_generate_add_unique(table, uc)
  ELSE Pg_generate_add_unique(table, uc)

generate_drop_unique(gen, table, uc_name) ==
  IF gen = "mysql" THEN MySql_generate_drop_unique(table, uc_name)
  ELSE Pg_generate_drop_unique(table, uc_name)

\* ------------------------------------------------------------------------
\* Schema model (models/schema.rs) and the inputs of the model
\* ------------------------------------------------------------------------
Column(name, data_type, nullable, default_value, auto_increment, comment, ordinal_position) ==
  [name |-> name, data_type |-> data_type, nullable |-> nullable,
   default_value |-> default_value, auto_increment |-> auto_increment,
   comment |-> comment, ordinal_position |-> ordinal_position]

PrimaryKey(name, columns) == [name |-> name, columns |-> columns]

Index(name, columns, unique, index_type) ==
  [name |-> name, columns |-> columns, unique |-> unique, index_type |-> index_type]

ForeignKey(name, columns, ref_table, ref_columns, on_delete, on_update) ==
  [name |-> name, columns |-> columns, ref_table |-> ref_table,
   ref_columns |-> ref_columns, on_delete |-> on_delete, on_update |-> on_update]

UniqueConstraint(name, columns) == [name |-> name, columns |-> columns]

TableSchema(name, columns, primary_key, indexes, foreign_keys, unique_constraints) ==
  [name |-> name, columns |-> columns, primary_key |-> primary_key,
   indexes |-> indexes, foreign_keys |-> foreign_keys,
   unique_constraints |-> unique_constraints]

\* identifiers; two of them hold the delimiter of one dialect
NameA == <<"a">>

NameB == <<"b", DoubleQuote>>

NameT == <<"t">>

NameU == <<"u", Backtick>>

NameV == <<"v">>

ColA == Column(NameA, <<"INT">>, FALSE, None, FALSE, None, 1)

ColB == Column(NameB, <<"TEXT">>, TRUE, Some(<<"''">>), FALSE, None, 2)

\* ColA and one variant of it per field of Column, the name included
ColumnPool ==
  {ColA, ColB,
   [ColA EXCEPT !.name = NameV],
   [ColA EXCEPT !.data_type = <<"BIGINT">>],
   [ColA EXCEPT !.nullable = TRUE],
   [ColA EXCEPT !.default_value = Some(<<"0">>)],
   [ColA EXCEPT !.auto_increment = TRUE],
   [ColA EXCEPT !.comment = Some(<<"c", Apostrophe>>)],
   [ColA EXCEPT !.ordinal_position = 2]}

IdxI == Index(<<"i">>, <<NameA>>, FALSE, <<"BTREE">>)

IdxJ == Index(<<"j", Backtick>>, <<NameB>>, TRUE, <<"BTREE">>)

IndexPool ==
  {IdxI, IdxJ,
   [IdxI EXCEPT !.columns = <<NameA, NameB>>],
   [IdxI EXCEPT !.unique = TRUE],
   [IdxI EXCEPT !.index_type = <<"HASH">>]}

FkF == ForeignKey(<<"f">>, <<NameA>>, NameU, <<NameA>>, <<"CASCADE">>, <<"CASCADE">>)

FkG == ForeignKey(<<"g">>, <<NameB>>, NameV, <<NameB>>, <<"SET NULL">>, <<"RESTRICT">>)

ForeignKeyPool ==
  {FkF, FkG,
   [FkF EXCEPT !.columns = <<NameB>>],
   [FkF EXCEPT !.ref_table = NameV],
   [FkF EXCEPT !.ref_columns = <<NameB>>],
   [FkF EXCEPT !.on_delete = <<"SET NULL">>],
   [FkF EXCEPT !.on_update = <<"RESTRICT">>]}

UcP == UniqueConstraint(<<"p">>, <<NameA, NameB>>)

UcQ == UniqueConstraint(<<"q">>, <<NameB>>)

UniqueConstraintPool == {UcP, UcQ, [UcP EXCEPT !.columns = <<NameA>>]}

PrimaryKeyPool ==
  {None, Some(PrimaryKey(None, <<NameA>>)), Some(PrimaryKey(Some(<<"k">>), <<NameA>>)),
   Some(PrimaryKey(None, <<NameA, NameB>>))}

\* every sequence over pool of length at most max
SeqsUpTo(pool, max) == UNION {[1..n -> pool] : n \in 0..max}

\* no two entries of the list share a name
UniqueNames(list) ==
  \A i, j \in 1..Len(list) : i # j => list[i].name # list[j].name

UniqueSeqs(pool, max) == {s \in SeqsUpTo(pool, max) : UniqueNames(s)}

\* a snapshot that satisfies the data model's invariants
WellFormed(tables) ==
  /\ UniqueNames(tables)
  /\ \A i \in 1..Len(tables) :
       /\ UniqueNames(tables[i].columns)
       /\ UniqueNames(tables[i].indexes)
       /\ UniqueNames(tables[i].foreign_keys)
       /\ UniqueNames(tables[i].unique_constraints)

\* children that only the second table holds
ColC == Column(<<"c">>, <<"DATE">>, FALSE, None, FALSE, Some(<<"n">>), 1)

IdxK == Index(<<"k">>, <<NameB, NameA>>, FALSE, <<"HASH">>)

FkH == ForeignKey(<<"h">>, <<NameA>>, NameT, <<NameB>>, <<"NO ACTION">>, <<"CASCADE">>)

UcR == UniqueConstraint(<<"r", DoubleQuote>>, <<NameA>>)

\* a table with two children of every kind, and a table that holds one of
\* them changed, lacks the other and has one of its own
TableFull(name) ==
  TableSchema(name, <<ColA, ColB>>, Some(PrimaryKey(None, <<NameA>>)),
              <<IdxI, IdxJ>>, <<FkF, FkG>>, <<UcP, UcQ>>)

TableOther(name) ==
  TableSchema(name, <<ColC, [ColA EXCEPT !.data_type = <<"BIGINT">>]>>, None,
              <<IdxK, [IdxI EXCEPT !.unique = TRUE]>>,
              <<FkH, [FkF EXCEPT !.ref_table = NameV]>>,
              <<UcR, [UcP EXCEPT !.columns = <<NameA>>]>>)

\* snapshots that differ in which tables they hold
TableLevelSnapshots ==
  UniqueSeqs({TableFull(n) : n \in {NameT, NameU, NameV}}
               \cup {TableOther(n) : n \in {NameT, NameU, NameV}}, MaxTables)

\* snapshots of the one table t that differ in the children of one kind
ColumnSnapshots ==
  {<<TableSchema(NameT, cols, None, <<>>, <<>>, <<>>)>> :
     cols \in UniqueSeqs(ColumnPool, MaxChildren)}

IndexSnapshots ==
  {<<TableSchema(NameT, <<ColA>>, None, idxs, <<>>, <<>>)>> :
     idxs \in UniqueSeqs(IndexPool, MaxChildren)}

ForeignKeySnapshots ==
  {<<TableSchema(NameT, <<ColA>>, None, <<>>, fks, <<>>)>> :
     fks \in UniqueSeqs(ForeignKeyPool, MaxChildren)}

UniqueConstraintSnapshots ==
  {<<TableSchema(NameT, <<ColA>>, None, <<>>, <<>>, ucs)>> :
     ucs \in UniqueSeqs(UniqueConstraintPool, MaxChildren)}

PrimaryKeySnapshots ==
  {<<TableSchema(NameT, <<ColA, ColB>>, pk, <<IdxI>>, <<FkF>>, <<UcP>>)>> :
     pk \in PrimaryKeyPool}

\* snapshots that break the invariants: repeated table or column names
DuplicateTableSnapshots ==
  SeqsUpTo({TableFull(NameT), TableOther(NameT), TableOther(NameU)}, MaxTables)

DuplicateColumnSnapshots ==
  {<<TableSchema(NameT, cols, None, <<>>, <<>>, <<>>)>> :
     cols \in SeqsUpTo({ColA, [ColA EXCEPT !.data_type = <<"BIGINT">>], ColB},
                       MaxChildren)}

\* the (source, target) pairs compare_schemas is called with
Inputs ==
       (TableLevelSnapshots \X TableLevelSnapshots)
  \cup (ColumnSnapshots \X ColumnSnapshots)
  \cup (IndexSnapshots \X IndexSnapshots)
  \cup (ForeignKeySnapshots \X ForeignKeySnapshots)
  \cup (UniqueConstraintSnapshots \X UniqueConstraintSnapshots)
  \cup (PrimaryKeySnapshots \X PrimaryKeySnapshots)
  \cup (DuplicateTableSnapshots \X DuplicateTableSnapshots)
  \cup (DuplicateColumnSnapshots \X DuplicateColumnSnapshots)

\* ------------------------------------------------------------------------
\* diff/comparator.rs
\* ------------------------------------------------------------------------
DiffItem(id, diff_type, table_name, object_name, source_def, target_def, sql, selected) ==
  [id |-> id, diff_type |-> diff_type, table_name |-> table_name,
   object_name |-> object_name, source_def |-> source_def,
   target_def |-> target_def, sql |-> sql, selected |-> selected]

\* contains_key that never probes the last entry collected
contains_key_skips_last(list, name) ==
  \E i \in 1..(Len(list) - 1) : list[i].name = name

\* HashMap<&str, &T> collected from a Vec: contains_key
contains_key(list, name) == \E i \in 1..Len(list) : list[i].name = name

\* a map that keeps the first entry collected under a name
map_get_first_entry(list, name) ==
  list[CHOOSE i \in 1..Len(list) :
         /\ list[i].name = name
         /\ \A j \in 1..(i - 1) : list[j].name # name]

\* HashMap<&str, &T> collected from a Vec: get, the last entry of that name
map_get(list, name) ==
  list[CHOOSE i \in 1..Len(list) :
         /\ list[i].name = name
         /\ \A j \in (i + 1)..Len(list) : list[j].name # name]

\* id_counter += 1; diffs.push(item)
push(acc, item) ==
  [id_counter |-> acc.id_counter + 1, diffs |-> Append(acc.diffs, item)]

\* format!("{} columns", table.columns.len())
columns_def(table) == to_string(Len(table.columns)) \o <<" columns">>

\* format!("-> {}", fk.ref_table)
fk_def(fk) == <<"-> ">> \o fk.ref_table

TableAddedItem(n, gen, table) ==
  DiffItem(to_string(n), "TableAdded", table.name, None,
           Some(columns_def(table)), None,
           generate_create_table(gen, table), TRUE)

\* TableRemoved whose sql was copied from the TableAdded arm
TableRemovedItem_create_sql(n, gen, table) ==
  DiffItem(to_string(n), "TableRemoved", table.name, None,
           None, Some(columns_def(table)),
           generate_create_table(gen, table), TRUE)

TableRemovedItem(n, gen, table) ==
  DiffItem(to_string(n), "TableRemoved", table.name, None,
           None, Some(columns_def(table)),
           generate_drop_table(gen, table.name), TRUE)

ColumnAddedItem(n, gen, source, col) ==
  DiffItem(to_string(n), "ColumnAdded", source.name, Some(col.name),
           Some(col.data_type), None,
           generate_add_column(gen, source.name, col), TRUE)

\* ColumnModified whose statement restates the target's column
ColumnModifiedItem_target_sql(n, gen, source, col, target_col) ==
  DiffItem(to_string(n), "ColumnModified", source.name, Some(col.name),
           Some(col.data_type), Some(target_col.data_type),
           generate_modify_column(gen, source.name, target_col), TRUE)

ColumnModifiedItem(n, gen, source, col, target_col) ==
  DiffItem(to_string(n), "ColumnModified", source.name, Some(col.name),
           Some(col.data_type), Some(target_col.data_type),
           generate_modify_column(gen, source.name, col), TRUE)

ColumnRemovedItem(n, gen, source, col) ==
  DiffItem(to_string(n), "ColumnRemoved", source.name, Some(col.name),
           None, Some(col.data_type),
           generate_drop_column(gen, source.name, col.name), TRUE)

IndexAddedItem(n, gen, source, idx) ==
  DiffItem(to_string(n), "IndexAdded", source.name, Some(idx.name),
           Some(Join(idx.columns, ", ")), None,
           generate_add_index(gen, source.name, idx), TRUE)

\* IndexModified that recreates the index before dropping it
IndexModifiedItem_add_then_drop(n, gen, source, idx, target_index) ==
  DiffItem(to_string(n), "IndexModified", source.name, Some(idx.name),
           Some(Join(idx.columns, ", ")), Some(Join(target_index.columns, ", ")),
           generate_add_index(gen, source.name, idx) \o <<"\n">>
             \o generate_drop_index(gen, source.name, idx.name),
           TRUE)

IndexModifiedItem(n, gen, source, idx, target_index) ==
  DiffItem(to_string(n), "IndexModified", source.name, Some(idx.name),
           Some(Join(idx.columns, ", ")), Some(Join(target_index.columns, ", ")),
           generate_drop_index(gen, source.name, idx.name) \o <<"\n">>
             \o generate_add_index(gen, source.name, idx),
           TRUE)

\* IndexRemoved left unselected, as a destructive change might be
IndexRemovedItem_unselected(n, gen, source, idx) ==
  DiffItem(to_string(n), "IndexRemoved", source.name, Some(idx.name),
           None, Some(Join(idx.columns, ", ")),
           generate_drop_index(gen, source.name, idx.name), FALSE)

IndexRemovedItem(n, gen, source, idx) ==
  DiffItem(to_string(n), "IndexRemoved", source.name, Some(idx.name),
           None, Some(Join(idx.columns, ", ")),
           generate_drop_index(gen, source.name, idx.name), TRUE)

\* ForeignKeyAdded addressed to the referenced table instead of the owner
ForeignKeyAddedItem_ref_table(n, gen, source, fk) ==
  DiffItem(to_string(n), "ForeignKeyAdded", fk.ref_table, Some(fk.name),
           Some(fk_def(fk)), None,
           generate_add_foreign_key(gen, fk.ref_table, fk), TRUE)

ForeignKeyAddedItem(n, gen, source, fk) ==
  DiffItem(to_string(n), "ForeignKeyAdded", source.name, Some(fk.name),
           Some(fk_def(fk)), None,
           generate_add_foreign_key(gen, source.name, fk), TRUE)

ForeignKeyRemovedItem(n, gen, source, fk) ==
  DiffItem(to_string(n), "ForeignKeyRemoved", source.name, Some(fk.name),
           None, Some(fk_def(fk)),
           generate_drop_foreign_key(gen, source.name, fk.name), TRUE)

UniqueConstraintAddedItem(n, gen, source, uc) ==
  DiffItem(to_string(n), "UniqueConstraintAdded", source.name, Some(uc.name),
           Some(Join(uc.columns, ", ")), None,
           generate_add_unique(gen, source.name, uc), TRUE)

UniqueConstraintRemovedItem(n, gen, source, uc) ==
  DiffItem(to_string(n), "UniqueConstraintRemoved", source.name, Some(uc.name),
           None, Some(Join(uc.columns, ", ")),
           generate_drop_unique(gen, source.name, uc.name), TRUE)

\* a column comparison that leaves ordinal_position out
column_ne_without_position(col, target_col) ==
  [col EXCEPT !.ordinal_position = 0] # [target_col EXCEPT !.ordinal_position = 0]

\* derive(PartialEq) of Column: every field
column_ne(col, target_col) == col # target_col

\* derive(PartialEq) of Index: every field
index_ne(idx, target_index) == idx # target_index

\* the source-column iteration taking a target column of another name but
\* otherwise equal fields, absent from the source, for the same column
source_column_step_infers_rename(acc, gen, source, target, col) ==
  IF ~contains_key(target.columns, col.name)
    THEN IF \E i \in 1..Len(target.columns) :
              /\ ~contains_key(source.columns, target.columns[i].name)
              /\ [target.columns[i] EXCEPT !.name = col.name] = col
           THEN push(acc, ColumnModifiedItem(acc.id_counter + 1, gen, source, col, col))
           ELSE push(acc, ColumnAddedItem(acc.id_counter + 1, gen, source, col))
    ELSE LET target_col == map_get(target.columns, col.name)
         IN  IF column_ne(col, target_col)
               THEN push(acc, ColumnModifiedItem(acc.id_counter + 1, gen, source,
                                                 col, target_col))
               ELSE acc

\* one iteration of for col in &source.columns
source_column_step(acc, gen, source, target, col) ==
  IF ~contains_key(target.columns, col.name)
    THEN push(acc, ColumnAddedItem(acc.id_counter + 1, gen, source, col))
    ELSE LET target_col == map_get(target.columns, col.name)
         IN  IF column_ne(col, target_col)
               THEN push(acc, ColumnModifiedItem(acc.id_counter + 1, gen, source,
                                                 col, target_col))
               ELSE acc

\* one iteration of for col in &target.columns
target_column_step(acc, gen, source, target, col) ==
  IF ~contains_key(source.columns, col.name)
    THEN push(acc, ColumnRemovedItem(acc.id_counter + 1, gen, source, col))
    ELSE acc

\* one iteration of for idx in &source.indexes
source_index_step(acc, gen, source, target, idx) ==
  IF ~contains_key(target.indexes, idx.name)
    THEN push(acc, IndexAddedItem(acc.id_counter + 1, gen, source, idx))
    ELSE LET target_index == map_get(target.indexes, idx.name)
         IN  IF index_ne(idx, target_index)
               THEN push(acc, IndexModifiedItem(acc.id_counter + 1, gen, source,
                                                idx, target_index))
               ELSE acc

\* one iteration of for idx in &target.indexes
target_index_step(acc, gen, source, target, idx) ==
  IF ~contains_key(source.indexes, idx.name)
    THEN push(acc, IndexRemovedItem(acc.id_counter + 1, gen, source, idx))
    ELSE acc

\* one iteration of for fk in &source.foreign_keys
source_fk_step(acc, gen, source, target, fk) ==
  IF ~contains_key(target.foreign_keys, fk.name)
    THEN push(acc, ForeignKeyAddedItem(acc.id_counter + 1, gen, source, fk))
    ELSE acc

\* one iteration of for fk in &target.foreign_keys
target_fk_step(acc, gen, source, target, fk) ==
  IF ~contains_key(source.foreign_keys, fk.name)
    THEN push(acc, ForeignKeyRemovedItem(acc.id_counter + 1, gen, source, fk))
    ELSE acc

\* one iteration of for uc in &source.unique_constraints
source_uc_step(acc, gen, source, target, uc) ==
  IF ~contains_key(target.unique_constraints, uc.name)
    THEN push(acc, UniqueConstraintAddedItem(acc.id_counter + 1, gen, source, uc))
    ELSE acc

\* the removed-constraint loop probing the target's own lookup
target_uc_step_own_lookup(acc, gen, source, target, uc) ==
  IF ~contains_key(target.unique_constraints, uc.name)
    THEN push(acc, UniqueConstraintRemovedItem(acc.id_counter + 1, gen, source, uc))
    ELSE acc

\* one iteration of for uc in &target.unique_constraints
target_uc_step(acc, gen, source, target, uc) ==
  IF ~contains_key(source.unique_constraints, uc.name)
    THEN push(acc, UniqueConstraintRemovedItem(acc.id_counter + 1, gen, source, uc))
    ELSE acc

RECURSIVE for_each(_, _, _, _, _, _, _)
\* the eight for loops of compare_tables: loop is the loop's name, list the
\* Vec it iterates, i the position of the next element
for_each(loop, list, i, acc, gen, source, target) ==
  IF i > Len(list) THEN acc
  ELSE for_each(loop, list, i + 1,
         CASE loop = "source_columns" -> source_column_step(acc, gen, source, target, list[i])
           [] loop = "target_columns" -> target_column_step(acc, gen, source, target, list[i])
           [] loop = "source_indexes" -> source_index_step(acc, gen, source, target, list[i])
           [] loop = "target_indexes" -> target_index_step(acc, gen, source, target, list[i])
           [] loop = "source_fks" -> source_fk_step(acc, gen, source, target, list[i])
           [] loop = "target_fks" -> target_fk_step(acc, gen, source, target, list[i])
           [] loop = "source_ucs" -> source_uc_step(acc, gen, source, target, list[i])
           [] loop = "target_ucs" -> target_uc_step(acc, gen, source, target, list[i]),
         gen, source, target)

\* compare_tables that also reports a primary key that differs
compare_tables_with_primary_key(source, target, gen, acc) ==
  LET c1 == for_each("source_columns", source.columns, 1, acc, gen, source, target)
      c2 == for_each("target_columns", target.columns, 1, c1, gen, source, target)
      i1 == for_each("source_indexes", source.indexes, 1, c2, gen, source, target)
      i2 == for_each("target_indexes", target.indexes, 1, i1, gen, source, target)
      f1 == for_each("source_fks", source.foreign_keys, 1, i2, gen, source, target)
      f2 == for_each("target_fks", target.foreign_keys, 1, f1, gen, source, target)
      u1 == for_each("source_ucs", source.unique_constraints, 1, f2, gen, source, target)
      u2 == for_each("target_ucs", target.unique_constraints, 1, u1, gen, source, target)
  IN  IF source.primary_key # target.primary_key
        THEN push(u2, DiffItem(to_string(u2.id_counter + 1), "PrimaryKeyModified",
                               source.name, None, None, None, <<>>, TRUE))
        ELSE u2

\* compare_tables numbering its items with a counter of its own
compare_tables_fresh_counter(source, target, gen, acc) ==
  LET a0 == [acc EXCEPT !.id_counter = 0]
      c1 == for_each("source_columns", source.columns, 1, a0, gen, source, target)
      c2 == for_each("target_columns", target.columns, 1, c1, gen, source, target)
      i1 == for_each("source_indexes", source.indexes, 1, c2, gen, source, target)
      i2 == for_each("target_indexes", target.indexes, 1, i1, gen, source, target)
      f1 == for_each("source_fks", source.foreign_keys, 1, i2, gen, source, target)
      f2 == for_each("target_fks", target.foreign_keys, 1, f1, gen, source, target)
      u1 == for_each("source_ucs", source.unique_constraints, 1, f2, gen, source, target)
      u2 == for_each("target_ucs", target.unique_constraints, 1, u1, gen, source, target)
  IN  u2

\* compare_tables with the foreign-key section ahead of the index section
compare_tables_fks_first(source, target, gen, acc) ==
  LET c1 == for_each("source_columns", source.columns, 1, acc, gen, source, target)
      c2 == for_each("target_columns", target.columns, 1, c1, gen, source, target)
      f1 == for_each("source_fks", source.foreign_keys, 1, c2, gen, source, target)
      f2 == for_each("target_fks", target.foreign_keys, 1, f1, gen, source, target)
      i1 == for_each("source_indexes", source.indexes, 1, f2, gen, source, target)
      i2 == for_each("target_indexes", target.indexes, 1, i1, gen, source, target)
      u1 == for_each("source_ucs", source.unique_constraints, 1, i2, gen, source, target)
      u2 == for_each("target_ucs", target.unique_constraints, 1, u1, gen, source, target)
  IN  u2

\* compare_tables with the removed-column loop ahead of the source-column loop
compare_tables_removed_columns_first(source, target, gen, acc) ==
  LET c1 == for_each("target_columns", target.columns, 1, acc, gen, source, target)
      c2 == for_each("source_columns", source.columns, 1, c1, gen, source, target)
      i1 == for_each("source_indexes", source.indexes, 1, c2, gen, source, target)
      i2 == for_each("target_indexes", target.indexes, 1, i1, gen, source, target)
      f1 == for_each("source_fks", source.foreign_keys, 1, i2, gen, source, target)
      f2 == for_each("target_fks", target.foreign_keys, 1, f1, gen, source, target)
      u1 == for_each("source_ucs", source.unique_constraints, 1, f2, gen, source, target)
      u2 == for_each("target_ucs", target.unique_constraints, 1, u1, gen, source, target)
  IN  u2

\* compare_tables(source, target, sql_gen, &mut diffs, &mut id_counter)
compare_tables(source, target, gen, acc) ==
  LET c1 == for_each("source_columns", source.columns, 1, acc, gen, source, target)
      c2 == for_each("target_columns", target.columns, 1, c1, gen, source, target)
      i1 == for_each("source_indexes", source.indexes, 1, c2, gen, source, target)
      i2 == for_each("target_indexes", target.indexes, 1, i1, gen, source, target)
      f1 == for_each("source_fks", source.foreign_keys, 1, i2, gen, source, target)
      f2 == for_each("target_fks", target.foreign_keys, 1, f1, gen, source, target)
      u1 == for_each("source_ucs", source.unique_constraints, 1, f2, gen, source, target)
      u2 == for_each("target_ucs", target.unique_constraints, 1, u1, gen, source, target)
  IN  u2

\* the added-table loop with the lookup test inverted
added_table_step_inverted(acc, gen, target_list, table) ==
  IF contains_key(target_list, table.name)
    THEN push(acc, TableAddedItem(acc.id_counter + 1, gen, table))
    ELSE acc

\* the added-table iteration that also lists the columns of the new table
added_table_step_with_columns(acc, gen, target_list, table) ==
  IF ~contains_key(target_list, table.name)
    THEN for_each("source_columns", table.columns, 1,
                  push(acc, TableAddedItem(acc.id_counter + 1, gen, table)), gen, table,
                  TableSchema(table.name, <<>>, None, <<>>, <<>>, <<>>))
    ELSE acc

\* one iteration of for table in source (added tables)
added_table_step(acc, gen, target_list, table) ==
  IF ~contains_key(target_list, table.name)
    THEN push(acc, TableAddedItem(acc.id_counter + 1, gen, table))
    ELSE acc

\* one iteration of for table in target (removed tables)
removed_table_step(acc, gen, source_list, table) ==
  IF ~contains_key(source_list, table.name)
    THEN push(acc, TableRemovedItem(acc.id_counter + 1, gen, table))
    ELSE acc

RECURSIVE added_tables(_, _, _, _, _)
added_tables(source_list, target_list, gen, i, acc) ==
  IF i > Len(source_list) THEN acc
  ELSE added_tables(source_list, target_list, gen, i + 1,
                    added_table_step(acc, gen, target_list, source_list[i]))

RECURSIVE removed_tables_backwards(_, _, _, _, _)
\* the removed-table loop walking the target from its last table to its first
removed_tables_backwards(source_list, target_list, gen, i, acc) ==
  IF i > Len(target_list) THEN acc
  ELSE removed_tables_backwards(source_list, target_list, gen, i + 1,
         removed_table_step(acc, gen, source_list,
                            target_list[Len(target_list) + 1 - i]))

RECURSIVE removed_tables(_, _, _, _, _)
removed_tables(source_list, target_list, gen, i, acc) ==
  IF i > Len(target_list) THEN acc
  ELSE removed_tables(source_list, target_list, gen, i + 1,
                      removed_table_step(acc, gen, source_list, target_list[i]))

RECURSIVE existing_tables(_, _, _, _, _)
\* the third loop: compare_tables for every source table the target holds
existing_tables(source_list, target_list, gen, i, acc) ==
  IF i > Len(source_list) THEN acc
  ELSE existing_tables(source_list, target_list, gen, i + 1,
         IF contains_key(target_list, source_list[i].name)
           THEN compare_tables(source_list[i],
                               map_get(target_list, source_list[i].name), gen, acc)
           ELSE acc)

\* compare_schemas(source, target, sql_gen) -> Vec<DiffItem>
compare_schemas(source_list, target_list, gen) ==
  LET a0 == [id_counter |-> 0, diffs |-> <<>>]
      a1 == added_tables(source_list, target_list, gen, 1, a0)
      a2 == removed_tables(source_list, target_list, gen, 1, a1)
      a3 == existing_tables(source_list, target_list, gen, 1, a2)
  IN  a3.diffs

\* ------------------------------------------------------------------------
\* One call of compare_schemas as a state machine
\* ------------------------------------------------------------------------
VARIABLES
  source,      \* &[TableSchema]
  target,      \* &[TableSchema]
  sql_gen,     \* the driver behind &dyn SqlGenerator
  diffs,       \* the Vec<DiffItem> being built
  id_counter,  \* the counter threaded through the call
  table_idx,   \* position of the third loop in source
  pc           \* "added", "removed", "existing" or "done"

\* One call of the execute_sync command (main.rs)
VARIABLES
  sql_statements,  \* the Vec<String> the caller passed
  exec_pc,         \* "idle", "lookup", "connect", "loop" or "returned"
  exec_i,          \* i of the enumerate() loop: statements done so far
  executed,        \* what the target database was handed, with its verdict
  exec_result      \* None while running, then the Result<(), String>

\* One call of the compare_databases command (main.rs)
VARIABLES
  cmd_pc,         \* "idle", "source_conn", ..., "comparing" or "returned"
  source_conn,    \* Option: the db_type of the source connection
  target_conn,    \* Option: the db_type of the target connection
  source_driver,  \* Option<DatabaseDriver>
  target_driver,  \* Option<DatabaseDriver>
  source_tables,  \* Option<Vec<TableSchema>>
  target_tables,  \* Option<Vec<TableSchema>>
  cmd_log,        \* the calls the command made so far, with their outcome
  cmd_result      \* None while running, then the Result<DiffResult, String>

\* compare_schemas calls running side by side, each with its own locals
VARIABLES calls

\* One call of a SqlGenerator method: its arguments and what it returned
VARIABLES
  gen_input,   \* the method, the dialect and the arguments
  gen_output   \* None before the call, then Some(the returned value)

\* The commands of main.rs running as concurrent tasks over AppState
VARIABLES
  store_lock,  \* the task holding config_store's Mutex, or None
  tasks        \* per task: its command and where it stands

genVars == <<gen_input, gen_output>>

lockVars == <<store_lock, tasks>>

compareVars == <<source, target, sql_gen, diffs, id_counter, table_idx, pc>>

execVars == <<sql_statements, exec_pc, exec_i, executed, exec_result>>

cmdVars ==
  <<cmd_pc, source_conn, target_conn, source_driver, target_driver,
    source_tables, target_tables, cmd_log, cmd_result>>

vars == <<compareVars, execVars, cmdVars, calls, genVars, lockVars>>

\* no compare_databases call is in progress
CmdIdle ==
  /\ cmd_pc = "idle"
  /\ source_conn = None /\ target_conn = None
  /\ source_driver = None /\ target_driver = None
  /\ source_tables = None /\ target_tables = None
  /\ cmd_log = <<>>
  /\ cmd_result = None

\* no concurrent callers
CallsIdle == calls = <<>>

\* no generator method is being called on its own
GenIdle == gen_input = None /\ gen_output = None

\* no command task exists
LockIdle == store_lock = None /\ tasks = <<>>

\* no execute_sync call is in progress
ExecIdle ==
  /\ sql_statements = <<>>
  /\ exec_pc = "idle"
  /\ exec_i = 0
  /\ executed = <<>>
  /\ exec_result = None

Init ==
  /\ \E p \in Inputs : source = p[1] /\ target = p[2]
  /\ sql_gen \in Generators
  /\ diffs = <<>>
  /\ id_counter = 0
  /\ table_idx = 1
  /\ pc = "added"
  /\ ExecIdle /\ CmdIdle /\ CallsIdle /\ GenIdle /\ LockIdle

\* first loop: tables in source that the target map lacks
FindAddedTables ==
  /\ pc = "added"
  /\ LET acc == added_tables(source, target, sql_gen, 1,
                             [id_counter |-> id_counter, diffs |-> diffs])
     IN  diffs' = acc.diffs /\ id_counter' = acc.id_counter
  /\ pc' = "removed"
  /\ UNCHANGED <<source, target, sql_gen, table_idx>>
  /\ UNCHANGED <<execVars, cmdVars, calls, genVars, lockVars>>

\* second loop: tables in target that the source map lacks
FindRemovedTables ==
  /\ pc = "removed"
  /\ LET acc == removed_tables(source, target, sql_gen, 1,
                               [id_counter |-> id_counter, diffs |-> diffs])
     IN  diffs' = acc.diffs /\ id_counter' = acc.id_counter
  /\ pc' = "existing"
  /\ UNCHANGED <<source, target, sql_gen, table_idx>>
  /\ UNCHANGED <<execVars, cmdVars, calls, genVars, lockVars>>

\* one iteration of the third loop: compare a table both snapshots hold
CompareExisting ==
  /\ pc = "existing"
  /\ table_idx <= Len(source)
  /\ LET source_table == source[table_idx]
         acc == IF contains_key(target, source_table.name)
                  THEN compare_tables(source_table,
                                      map_get(target, source_table.name), sql_gen,
                                      [id_counter |-> id_counter, diffs |-> diffs])
                  ELSE [id_counter |-> id_counter, diffs |-> diffs]
     IN  diffs' = acc.diffs /\ id_counter' = acc.id_counter
  /\ table_idx' = table_idx + 1
  /\ UNCHANGED <<source, target, sql_gen, pc>>
  /\ UNCHANGED <<execVars, cmdVars, calls, genVars, lockVars>>

\* the third loop is over: compare_schemas returns diffs
Return ==
  /\ pc = "existing"
  /\ table_idx > Len(source)
  /\ pc' = "done"
  /\ UNCHANGED <<source, target, sql_gen, diffs, id_counter, table_idx>>
  /\ UNCHANGED <<execVars, cmdVars, calls, genVars, lockVars>>

Next == FindAddedTables \/ FindRemovedTables \/ CompareExisting \/ Return

Spec == Init /\ [][Next]_vars

TypeOK ==
  /\ pc \in {"idle", "added", "removed", "existing", "done"}
  /\ sql_gen \in Generators
  /\ id_counter = Len(diffs)

\* ------------------------------------------------------------------------
\* One call of execute_sync as a state machine
\* ------------------------------------------------------------------------
MaxStatements == 3

\* Result<(), String>
Ok == <<"Ok">>
Err(message) == <<"Err", message>>
IsErr(result) == Len(result) = 2 /\ result[1] = "Err"

\* SQL texts a caller passes, and what a failing call reports (opaque)
StatementPool ==
  {<<"ALTER TABLE t ADD COLUMN a INT;">>, <<"DROP TABLE u;">>, <<"CREATE INDEX i ON t (a);">>}

SqlxErrors == {<<"error returned from database: syntax error">>, <<"pool timed out">>}

\* no compare_schemas call is in progress
CompareIdle ==
  /\ source = <<>> /\ target = <<>>
  /\ sql_gen = "mysql"
  /\ diffs = <<>>
  /\ id_counter = 0
  /\ table_idx = 1
  /\ pc = "idle"

InitExecuteSync ==
  /\ sql_statements \in SeqsUpTo(StatementPool, MaxStatements)
  /\ exec_pc = "lookup"
  /\ exec_i = 0
  /\ executed = <<>>
  /\ exec_result = None
  /\ CompareIdle /\ CmdIdle /\ CallsIdle /\ GenIdle /\ LockIdle

\* the message of a failed statement
ExecuteErrorMessage(sql, e) == <<"Failed to execute: ">> \o sql \o <<"\nError: ">> \o e

\* lock the store, look the target connection up, drop the lock
ExecGetConnection ==
  /\ exec_pc = "lookup"
  /\ \/ exec_pc' = "connect" /\ UNCHANGED exec_result
     \/ /\ exec_result' = Err(<<"Target connection not found">>)
        /\ exec_pc' = "returned"
     \/ \E e \in SqlxErrors :
          /\ exec_result' = Err(e)
          /\ exec_pc' = "returned"
  /\ UNCHANGED <<sql_statements, exec_i, executed>>
  /\ UNCHANGED <<compareVars, cmdVars, calls, genVars, lockVars>>

\* DatabaseDriver::create for the target connection
ExecCreateDriver ==
  /\ exec_pc = "connect"
  /\ \/ exec_pc' = "loop" /\ UNCHANGED exec_result
     \/ \E e \in SqlxErrors :
          /\ exec_result' = Err(<<"Connection failed: ">> \o e)
          /\ exec_pc' = "returned"
  /\ UNCHANGED <<sql_statements, exec_i, executed>>
  /\ UNCHANGED <<compareVars, cmdVars, calls, genVars, lockVars>>

\* the loop going on to the next statement after a failure
ExecStatement_keeps_going ==
  /\ exec_pc = "loop"
  /\ exec_i < Len(sql_statements)
  /\ LET sql == sql_statements[exec_i + 1]
     IN  \/ /\ executed' = Append(executed, [sql |-> sql, ok |-> TRUE])
            /\ UNCHANGED exec_result
         \/ \E e \in SqlxErrors :
              /\ executed' = Append(executed, [sql |-> sql, ok |-> FALSE])
              /\ exec_result' = Err(ExecuteErrorMessage(sql, e))
  /\ exec_i' = exec_i + 1
  /\ UNCHANGED <<sql_statements, exec_pc>>
  /\ UNCHANGED <<compareVars, cmdVars, calls, genVars, lockVars>>

\* one iteration of the loop: hand statement i to the database; its error
\* ends the call
ExecStatement ==
  /\ exec_pc = "loop"
  /\ exec_i < Len(sql_statements)
  /\ LET sql == sql_statements[exec_i + 1]
     IN  \/ /\ executed' = Append(executed, [sql |-> sql, ok |-> TRUE])
            /\ exec_i' = exec_i + 1
            /\ UNCHANGED <<exec_pc, exec_result>>
         \/ \E e \in SqlxErrors :
              /\ executed' = Append(executed, [sql |-> sql, ok |-> FALSE])
              /\ exec_result' = Err(ExecuteErrorMessage(sql, e))
              /\ exec_pc' = "returned"
              /\ UNCHANGED exec_i
  /\ UNCHANGED sql_statements
  /\ UNCHANGED <<compareVars, cmdVars, calls, genVars, lockVars>>

\* the loop is over: Ok(())
ExecReturnOk ==
  /\ exec_pc = "loop"
  /\ exec_i = Len(sql_statements)
  /\ exec_result' = Ok
  /\ exec_pc' = "returned"
  /\ UNCHANGED <<sql_statements, exec_i, executed>>
  /\ UNCHANGED <<compareVars, cmdVars, calls, genVars, lockVars>>

NextExecuteSync ==
  ExecGetConnection \/ ExecCreateDriver \/ ExecStatement \/ ExecReturnOk

SpecExecuteSync == InitExecuteSync /\ [][NextExecuteSync]_vars

\* ------------------------------------------------------------------------
\* One call of compare_databases as a state machine
\* ------------------------------------------------------------------------
DbTypes == {"MySQL", "PostgreSQL", "MariaDB"}

\* DatabaseDriver::create: the variant built for a connection's db_type
DatabaseDriver_create(db_type) ==
  CASE db_type \in {"MySQL", "MariaDB"} -> "MySql"
    [] db_type = "PostgreSQL" -> "Postgres"

\* DatabaseDriver::as_sql_generator
as_sql_generator(driver) ==
  CASE driver = "MySql" -> "mysql"
    [] driver = "Postgres" -> "postgres"

\* snapshots get_tables may return
ReaderSnapshots ==
  {<<>>, <<TableFull(NameT)>>, <<TableOther(NameT)>>, <<TableOther(NameU), TableFull(NameT)>>}

DiffResult(items, source_len, target_len) ==
  [items |-> items, source_tables |-> source_len, target_tables |-> target_len]

Event(call, ok) == [call |-> call, ok |-> ok]

InitCompareDatabases ==
  /\ cmd_pc = "source_conn"
  /\ source_conn = None /\ target_conn = None
  /\ source_driver = None /\ target_driver = None
  /\ source_tables = None /\ target_tables = None
  /\ cmd_log = <<>>
  /\ cmd_result = None
  /\ CompareIdle /\ ExecIdle /\ CallsIdle /\ GenIdle /\ LockIdle

\* lock the store and look the source connection up
CmdGetSourceConnection ==
  /\ cmd_pc = "source_conn"
  /\ \/ \E db_type \in DbTypes :
          /\ source_conn' = Some(db_type)
          /\ cmd_log' = Append(cmd_log, Event("get_connection(source)", TRUE))
          /\ cmd_pc' = "target_conn"
          /\ UNCHANGED cmd_result
     \/ \E message \in {<<"Source connection not found">>} \cup SqlxErrors :
          /\ cmd_result' = Err(message)
          /\ cmd_log' = Append(cmd_log, Event("get_connection(source)", FALSE))
          /\ cmd_pc' = "returned"
          /\ UNCHANGED source_conn
  /\ UNCHANGED <<target_conn, source_driver, target_driver, source_tables, target_tables>>
  /\ UNCHANGED <<compareVars, execVars, calls, genVars, lockVars>>

\* look the target connection up and drop the lock
CmdGetTargetConnection ==
  /\ cmd_pc = "target_conn"
  /\ \/ \E db_type \in DbTypes :
          /\ target_conn' = Some(db_type)
          /\ cmd_log' = Append(cmd_log, Event("get_connection(target)", TRUE))
          /\ cmd_pc' = "source_driver"
          /\ UNCHANGED cmd_result
     \/ \E message \in {<<"Target connection not found">>} \cup SqlxErrors :
          /\ cmd_result' = Err(message)
          /\ cmd_log' = Append(cmd_log, Event("get_connection(target)", FALSE))
          /\ cmd_pc' = "returned"
          /\ UNCHANGED target_conn
  /\ UNCHANGED <<source_conn, source_driver, target_driver, source_tables, target_tables>>
  /\ UNCHANGED <<compareVars, execVars, calls, genVars, lockVars>>

\* DatabaseDriver::create(&source_conn)
CmdCreateSourceDriver ==
  /\ cmd_pc = "source_driver"
  /\ \/ /\ source_driver' = Some(DatabaseDriver_create(Unwrap(source_conn)))
        /\ cmd_log' = Append(cmd_log, Event("create(source)", TRUE))
        /\ cmd_pc' = "target_driver"
        /\ UNCHANGED cmd_result
     \/ \E e \in SqlxErrors :
          /\ cmd_result' = Err(<<"Connection failed: ">> \o e)
          /\ cmd_log' = Append(cmd_log, Event("create(source)", FALSE))
          /\ cmd_pc' = "returned"
          /\ UNCHANGED source_driver
  /\ UNCHANGED <<source_conn, target_conn, target_driver, source_tables, target_tables>>
  /\ UNCHANGED <<compareVars, execVars, calls, genVars, lockVars>>

\* DatabaseDriver::create(&target_conn)
CmdCreateTargetDriver ==
  /\ cmd_pc = "target_driver"
  /\ \/ /\ target_driver' = Some(DatabaseDriver_create(Unwrap(target_conn)))
        /\ cmd_log' = Append(cmd_log, Event("create(target)", TRUE))
        /\ cmd_pc' = "source_tables"
        /\ UNCHANGED cmd_result
     \/ \E e \in SqlxErrors :
          /\ cmd_result' = Err(<<"Connection failed: ">> \o e)
          /\ cmd_log' = Append(cmd_log, Event("create(target)", FALSE))
          /\ cmd_pc' = "returned"
          /\ UNCHANGED target_driver
  /\ UNCHANGED <<source_conn, target_conn, source_driver, source_tables, target_tables>>
  /\ UNCHANGED <<compareVars, execVars, calls, genVars, lockVars>>

\* source_driver.as_reader().get_tables()
CmdGetSourceTables ==
  /\ cmd_pc = "source_tables"
  /\ \/ \E snapshot \in ReaderSnapshots :
          /\ source_tables' = Some(snapshot)
          /\ cmd_log' = Append(cmd_log, Event("get_tables(source)", TRUE))
          /\ cmd_pc' = "target_tables"
          /\ UNCHANGED cmd_result
     \/ \E e \in SqlxErrors :
          /\ cmd_result' = Err(<<"Database error: ">> \o e)
          /\ cmd_log' = Append(cmd_log, Event("get_tables(source)", FALSE))
          /\ cmd_pc' = "returned"
          /\ UNCHANGED source_tables
  /\ UNCHANGED <<source_conn, target_conn, source_driver, target_driver, target_tables>>
  /\ UNCHANGED <<compareVars, execVars, calls, genVars, lockVars>>

\* get_tables for the target going on with an empty snapshot when it fails
CmdGetTargetTables_default_on_error ==
  /\ cmd_pc = "target_tables"
  /\ \/ \E snapshot \in ReaderSnapshots :
          /\ target_tables' = Some(snapshot)
          /\ cmd_log' = Append(cmd_log, Event("get_tables(target)", TRUE))
     \/ /\ target_tables' = Some(<<>>)
        /\ cmd_log' = Append(cmd_log, Event("get_tables(target)", FALSE))
  /\ cmd_pc' = "compare"
  /\ UNCHANGED cmd_result
  /\ UNCHANGED <<source_conn, target_conn, source_driver, target_driver, source_tables>>
  /\ UNCHANGED <<compareVars, execVars, calls, genVars, lockVars>>

\* target_driver.as_reader().get_tables()
CmdGetTargetTables ==
  /\ cmd_pc = "target_tables"
  /\ \/ \E snapshot \in ReaderSnapshots :
          /\ target_tables' = Some(snapshot)
          /\ cmd_log' = Append(cmd_log, Event("get_tables(target)", TRUE))
          /\ cmd_pc' = "compare"
          /\ UNCHANGED cmd_result
     \/ \E e \in SqlxErrors :
          /\ cmd_result' = Err(<<"Database error: ">> \o e)
          /\ cmd_log' = Append(cmd_log, Event("get_tables(target)", FALSE))
          /\ cmd_pc' = "returned"
          /\ UNCHANGED target_tables
  /\ UNCHANGED <<source_conn, target_conn, source_driver, target_driver, source_tables>>
  /\ UNCHANGED <<compareVars, execVars, calls, genVars, lockVars>>

\* the call handing compare_schemas the generator of the source driver
CmdCallCompareSchemas_source_generator ==
  /\ cmd_pc = "compare"
  /\ source' = Unwrap(source_tables)
  /\ target' = Unwrap(target_tables)
  /\ sql_gen' = as_sql_generator(Unwrap(source_driver))
  /\ diffs' = <<>> /\ id_counter' = 0 /\ table_idx' = 1
  /\ pc' = "added"
  /\ cmd_log' = Append(cmd_log, Event("compare_schemas", TRUE))
  /\ cmd_pc' = "comparing"
  /\ UNCHANGED <<source_conn, target_conn, source_driver, target_driver,
                 source_tables, target_tables, cmd_result>>
  /\ UNCHANGED <<execVars, calls, genVars, lockVars>>

\* compare_schemas(&source_tables, &target_tables,
\* target_driver.as_sql_generator()): the call starts
CmdCallCompareSchemas ==
  /\ cmd_pc = "compare"
  /\ source' = Unwrap(source_tables)
  /\ target' = Unwrap(target_tables)
  /\ sql_gen' = as_sql_generator(Unwrap(target_driver))
  /\ diffs' = <<>> /\ id_counter' = 0 /\ table_idx' = 1
  /\ pc' = "added"
  /\ cmd_log' = Append(cmd_log, Event("compare_schemas", TRUE))
  /\ cmd_pc' = "comparing"
  /\ UNCHANGED <<source_conn, target_conn, source_driver, target_driver,
                 source_tables, target_tables, cmd_result>>
  /\ UNCHANGED <<execVars, calls, genVars, lockVars>>

\* compare_schemas returned: Ok(DiffResult { items, source_tables, target_tables })
CmdReturnOk ==
  /\ cmd_pc = "comparing"
  /\ pc = "done"
  /\ cmd_result' = <<"Ok", DiffResult(diffs, Len(Unwrap(source_tables)),
                                      Len(Unwrap(target_tables)))>>
  /\ cmd_pc' = "returned"
  /\ UNCHANGED <<source_conn, target_conn, source_driver, target_driver,
                 source_tables, target_tables, cmd_log>>
  /\ UNCHANGED <<compareVars, execVars, calls, genVars, lockVars>>

NextCompareDatabases ==
  \/ CmdGetSourceConnection \/ CmdGetTargetConnection
  \/ CmdCreateSourceDriver \/ CmdCreateTargetDriver
  \/ CmdGetSourceTables \/ CmdGetTargetTables
  \/ CmdCallCompareSchemas
  \/ FindAddedTables \/ FindRemovedTables \/ CompareExisting \/ Return
  \/ CmdReturnOk

SpecCompareDatabases == InitCompareDatabases /\ [][NextCompareDatabases]_vars

\* ------------------------------------------------------------------------
\* compare_schemas calls running side by side
\* ------------------------------------------------------------------------
MaxCalls == 2

CallIds == 1..MaxCalls

\* the (source, target) pairs the concurrent callers pass
CallInputs ==
  {<<<<TableOther(NameT), TableFull(NameU)>>, <<TableFull(NameT)>>>>,
   <<<<TableOther(NameT), TableFull(NameU)>>, <<TableFull(NameV)>>>>,
   <<<<TableFull(NameT)>>, <<TableOther(NameU), TableFull(NameT)>>>>}

\* the orders in which a call's HashMaps would hand their entries out: the
\* RandomState of a map is drawn afresh for every map
MapOrders == {"as_inserted", "reversed"}

\* the locals of one call at its start
NewCall(input, gen, map_order) ==
  [source |-> input[1], target |-> input[2], sql_gen |-> gen,
   diffs |-> <<>>, id_counter |-> 0, table_idx |-> 1, pc |-> "added",
   map_order |-> map_order]

\* HashMap::values(): the entries in the order of the map's hasher
map_values(list, map_order) ==
  IF map_order = "reversed"
    THEN [i \in 1..Len(list) |-> list[Len(list) + 1 - i]]
    ELSE list

InitConcurrent ==
  /\ calls \in [CallIds -> {NewCall(input, gen, map_order) :
                              input \in CallInputs, gen \in Generators,
                              map_order \in MapOrders}]
  /\ CompareIdle /\ ExecIdle /\ CmdIdle /\ GenIdle /\ LockIdle

\* a call whose id_counter is one counter of the whole process
with_locals_static_counter(id, call) ==
  [j \in DOMAIN calls |->
     IF j = id THEN call ELSE [calls[j] EXCEPT !.id_counter = call.id_counter]]

\* the calls after one of them updated its locals
with_locals(id, call) == [calls EXCEPT ![id] = call]

\* the first loop walking the values of source_map
call_find_added_over_map(call) ==
  LET acc == added_tables(map_values(call.source, call.map_order), call.target,
                          call.sql_gen, 1,
                          [id_counter |-> call.id_counter, diffs |-> call.diffs])
  IN  [call EXCEPT !.diffs = acc.diffs, !.id_counter = acc.id_counter,
                   !.pc = "removed"]

\* first loop of one call
call_find_added(call) ==
  LET acc == added_tables(call.source, call.target, call.sql_gen, 1,
                          [id_counter |-> call.id_counter, diffs |-> call.diffs])
  IN  [call EXCEPT !.diffs = acc.diffs, !.id_counter = acc.id_counter,
                   !.pc = "removed"]

\* second loop of one call
call_find_removed(call) ==
  LET acc == removed_tables(call.source, call.target, call.sql_gen, 1,
                            [id_counter |-> call.id_counter, diffs |-> call.diffs])
  IN  [call EXCEPT !.diffs = acc.diffs, !.id_counter = acc.id_counter,
                   !.pc = "existing"]

\* one iteration of the third loop of one call
call_compare_existing(call) ==
  LET source_table == call.source[call.table_idx]
      acc0 == [id_counter |-> call.id_counter, diffs |-> call.diffs]
      acc == IF contains_key(call.target, source_table.name)
               THEN compare_tables(source_table,
                                   map_get(call.target, source_table.name),
                                   call.sql_gen, acc0)
               ELSE acc0
  IN  [call EXCEPT !.diffs = acc.diffs, !.id_counter = acc.id_counter,
                   !.table_idx = call.table_idx + 1]

CallFindAddedTables(id) ==
  /\ calls[id].pc = "added"
  /\ calls' = with_locals(id, call_find_added(calls[id]))
  /\ UNCHANGED <<compareVars, execVars, cmdVars, genVars, lockVars>>

CallFindRemovedTables(id) ==
  /\ calls[id].pc = "removed"
  /\ calls' = with_locals(id, call_find_removed(calls[id]))
  /\ UNCHANGED <<compareVars, execVars, cmdVars, genVars, lockVars>>

CallCompareExisting(id) ==
  /\ calls[id].pc = "existing"
  /\ calls[id].table_idx <= Len(calls[id].source)
  /\ calls' = with_locals(id, call_compare_existing(calls[id]))
  /\ UNCHANGED <<compareVars, execVars, cmdVars, genVars, lockVars>>

CallReturn(id) ==
  /\ calls[id].pc = "existing"
  /\ calls[id].table_idx > Len(calls[id].source)
  /\ calls' = [calls EXCEPT ![id].pc = "done"]
  /\ UNCHANGED <<compareVars, execVars, cmdVars, genVars, lockVars>>

NextConcurrent ==
  \E id \in CallIds :
    \/ CallFindAddedTables(id)
    \/ CallFindRemovedTables(id)
    \/ CallCompareExisting(id)
    \/ CallReturn(id)

SpecConcurrent == InitConcurrent /\ [][NextConcurrent]_vars

\* ------------------------------------------------------------------------
\* The methods of SqlGenerator called on their own, on both drivers
\* ------------------------------------------------------------------------
MaxNameLen == 3

\* identifiers over a letter and the two delimiters
NameChars == {"a", Backtick, DoubleQuote}

IdentifierNames == SeqsUpTo(NameChars, MaxNameLen)

\* columns in every combination of the fields the generators read
GeneratorColumns ==
  {Column(name, data_type, nullable, default_value, auto_increment, None, 1) :
     name \in {NameA, NameB}, data_type \in {<<"INT">>, <<"TEXT">>},
     nullable \in BOOLEAN, default_value \in {None, Some(<<"0">>)},
     auto_increment \in BOOLEAN}

\* tables of one or two columns, with and without the other parts
GeneratorTables ==
  {TableSchema(NameT, <<c1, [c2 EXCEPT !.name = NameB]>>, pk, idxs, fks, ucs) :
     c1 \in {c \in GeneratorColumns : c.name = NameA /\ c.data_type = <<"INT">>},
     c2 \in {c \in GeneratorColumns : c.name = NameB /\ c.data_type = <<"TEXT">>
                                      /\ c.default_value = None},
     pk \in {None, Some(PrimaryKey(None, <<NameA>>))},
     idxs \in {<<>>, <<IdxI>>}, fks \in {<<>>, <<FkF>>}, ucs \in {<<>>, <<UcP>>}}

TableNames == {NameT, NameU, NameB}

GeneratorInputs ==
       {[method |-> "quote_identifier", names |-> names] :
          names \in (IdentifierNames \X IdentifierNames)}
  \cup {[method |-> "generate_add_column", table |-> t, column |-> c] :
          t \in TableNames, c \in GeneratorColumns}
  \cup {[method |-> "generate_create_table", table |-> t] : t \in GeneratorTables}
  \cup {[method |-> "generate_drop_index", table |-> t, name |-> i.name] :
          t \in TableNames, i \in IndexPool}
  \cup {[method |-> "generate_drop_foreign_key", table |-> t, name |-> f.name] :
          t \in TableNames, f \in ForeignKeyPool}
  \cup {[method |-> "generate_drop_unique", table |-> t, name |-> u.name] :
          t \in TableNames, u \in UniqueConstraintPool}
  \cup {[method |-> "generate_add_foreign_key", table |-> t, fk |-> f] :
          t \in TableNames, f \in ForeignKeyPool}
  \cup {[method |-> "generate_add_unique", table |-> t, uc |-> u] :
          t \in TableNames, u \in UniqueConstraintPool}

quote_identifier(gen, name) ==
  IF gen = "mysql" THEN MySql_quote_identifier(name) ELSE Pg_quote_identifier(name)

InitGenerators ==
  /\ gen_input \in GeneratorInputs
  /\ gen_output = None
  /\ CompareIdle /\ ExecIdle /\ CmdIdle /\ CallsIdle /\ LockIdle

\* quote_identifier for each of two names
CallQuoteIdentifier ==
  /\ gen_input.method = "quote_identifier" /\ gen_output = None
  /\ gen_output' = Some([g \in Generators |->
                           [i \in 1..2 |-> quote_identifier(g, gen_input.names[i])]])
  /\ UNCHANGED <<gen_input, compareVars, execVars, cmdVars, calls, lockVars>>

CallGenerateAddColumn ==
  /\ gen_input.method = "generate_add_column" /\ gen_output = None
  /\ gen_output' = Some([g \in Generators |->
                           generate_add_column(g, gen_input.table, gen_input.column)])
  /\ UNCHANGED <<gen_input, compareVars, execVars, cmdVars, calls, lockVars>>

CallGenerateCreateTable ==
  /\ gen_input.method = "generate_create_table" /\ gen_output = None
  /\ gen_output' = Some([g \in Generators |-> generate_create_table(g, gen_input.table)])
  /\ UNCHANGED <<gen_input, compareVars, execVars, cmdVars, calls, lockVars>>

CallGenerateDropIndex ==
  /\ gen_input.method = "generate_drop_index" /\ gen_output = None
  /\ gen_output' = Some([g \in Generators |->
                           generate_drop_index(g, gen_input.table, gen_input.name)])
  /\ UNCHANGED <<gen_input, compareVars, execVars, cmdVars, calls, lockVars>>

CallGenerateDropForeignKey ==
  /\ gen_input.method = "generate_drop_foreign_key" /\ gen_output = None
  /\ gen_output' = Some([g \in Generators |->
                           generate_drop_foreign_key(g, gen_input.table, gen_input.name)])
  /\ UNCHANGED <<gen_input, compareVars, execVars, cmdVars, calls, lockVars>>

CallGenerateDropUnique ==
  /\ gen_input.method = "generate_drop_unique" /\ gen_output = None
  /\ gen_output' = Some([g \in Generators |->
                           generate_drop_unique(g, gen_input.table, gen_input.name)])
  /\ UNCHANGED <<gen_input, compareVars, execVars, cmdVars, calls, lockVars>>

CallGenerateAddForeignKey ==
  /\ gen_input.method = "generate_add_foreign_key" /\ gen_output = None
  /\ gen_output' = Some([g \in Generators |->
                           generate_add_foreign_key(g, gen_input.table, gen_input.fk)])
  /\ UNCHANGED <<gen_input, compareVars, execVars, cmdVars, calls, lockVars>>

CallGenerateAddUnique ==
  /\ gen_input.method = "generate_add_unique" /\ gen_output = None
  /\ gen_output' = Some([g \in Generators |->
                           generate_add_unique(g, gen_input.table, gen_input.uc)])
  /\ UNCHANGED <<gen_input, compareVars, execVars, cmdVars, calls, lockVars>>

NextGenerators ==
  \/ CallQuoteIdentifier
  \/ CallGenerateAddColumn \/ CallGenerateCreateTable
  \/ CallGenerateDropIndex \/ CallGenerateDropForeignKey \/ CallGenerateDropUnique
  \/ CallGenerateAddForeignKey \/ CallGenerateAddUnique

SpecGenerators == InitGenerators /\ [][NextGenerators]_vars

\* ------------------------------------------------------------------------
\* The commands of main.rs as concurrent tasks over config_store's Mutex
\* ------------------------------------------------------------------------
MaxTasks == 2

TaskIds == 1..MaxTasks

\* commands that hold the guard until they return
StoreCommands ==
  {"list_connections", "get_connection", "save_connection", "delete_connection"}

\* commands that read profiles and then work on a database
DatabaseCommands == {"list_databases", "compare_databases", "execute_sync"}

\* a task at the start of its command: the profiles it will read and the
\* database operations it will await (driver creations, get_tables,
\* list_databases, one execute_sql per statement)
NewTask(cmd, statements) ==
  [cmd |-> cmd, pc |-> "start",
   reads |-> CASE cmd = "compare_databases" -> 2
               [] cmd \in {"list_databases", "execute_sync"} -> 1
               [] OTHER -> 0,
   db_ops |-> CASE cmd = "compare_databases" -> 4
                [] cmd = "list_databases" -> 2
                [] cmd = "execute_sync" -> 1 + statements
                [] OTHER -> 0]

NewTasks ==
       {NewTask(cmd, 0) : cmd \in StoreCommands \cup {"list_databases", "compare_databases"}}
  \cup {NewTask("execute_sync", n) : n \in 0..MaxStatements}

InitCommands ==
  /\ store_lock = None
  /\ tasks \in [TaskIds -> NewTasks]
  /\ CompareIdle /\ ExecIdle /\ CmdIdle /\ CallsIdle /\ GenIdle

\* state.config_store.lock().await: granted when no guard is alive
TaskLock(t) ==
  /\ tasks[t].pc = "start"
  /\ store_lock = None
  /\ store_lock' = Some(t)
  /\ tasks' = [tasks EXCEPT ![t].pc = "locked"]
  /\ UNCHANGED <<compareVars, execVars, cmdVars, calls, genVars>>

\* list, get, save or delete: the store call, then the return drops the guard
TaskStoreCommand(t) ==
  /\ tasks[t].pc = "locked"
  /\ tasks[t].cmd \in StoreCommands
  /\ store_lock' = None
  /\ tasks' = [tasks EXCEPT ![t].pc = "returned"]
  /\ UNCHANGED <<compareVars, execVars, cmdVars, calls, genVars>>

\* store.get_connection(..).await under the guard; an error or a missing
\* profile returns, which drops the guard
TaskReadProfile(t) ==
  /\ tasks[t].pc = "locked"
  /\ tasks[t].cmd \in DatabaseCommands
  /\ tasks[t].reads > 0
  /\ \/ /\ tasks' = [tasks EXCEPT ![t].reads = tasks[t].reads - 1]
        /\ UNCHANGED store_lock
     \/ /\ tasks' = [tasks EXCEPT ![t].pc = "returned"]
        /\ store_lock' = None
  /\ UNCHANGED <<compareVars, execVars, cmdVars, calls, genVars>>

\* the command going on to its database work with the guard alive
TaskDropStore_guard_kept(t) ==
  /\ tasks[t].pc = "locked"
  /\ tasks[t].cmd \in DatabaseCommands
  /\ tasks[t].reads = 0
  /\ UNCHANGED store_lock
  /\ tasks' = [tasks EXCEPT ![t].pc = "database"]
  /\ UNCHANGED <<compareVars, execVars, cmdVars, calls, genVars>>

\* drop(store)
TaskDropStore(t) ==
  /\ tasks[t].pc = "locked"
  /\ tasks[t].cmd \in DatabaseCommands
  /\ tasks[t].reads = 0
  /\ store_lock' = None
  /\ tasks' = [tasks EXCEPT ![t].pc = "database"]
  /\ UNCHANGED <<compareVars, execVars, cmdVars, calls, genVars>>

\* one awaited database operation; its error returns
TaskDatabaseOp(t) ==
  /\ tasks[t].pc = "database"
  /\ tasks[t].db_ops > 0
  /\ \/ tasks' = [tasks EXCEPT ![t].db_ops = tasks[t].db_ops - 1]
     \/ tasks' = [tasks EXCEPT ![t].pc = "returned"]
  /\ UNCHANGED store_lock
  /\ UNCHANGED <<compareVars, execVars, cmdVars, calls, genVars>>

\* the database work is done: Ok(..)
TaskReturn(t) ==
  /\ tasks[t].pc = "database"
  /\ tasks[t].db_ops = 0
  /\ tasks' = [tasks EXCEPT ![t].pc = "returned"]
  /\ UNCHANGED store_lock
  /\ UNCHANGED <<compareVars, execVars, cmdVars, calls, genVars>>

NextCommands ==
  \E t \in TaskIds :
    \/ TaskLock(t)
    \/ TaskStoreCommand(t)
    \/ TaskReadProfile(t)
    \/ TaskDropStore(t)
    \/ TaskDatabaseOp(t)
    \/ TaskReturn(t)

SpecCommands == InitCommands /\ [][NextCommands]_vars

\* ------------------------------------------------------------------------
\* Vocabulary of the properties
\* ------------------------------------------------------------------------
Range(list) == {list[i] : i \in 1..Len(list)}

Names(list) == {x.name : x \in Range(list)}

\* the entry of that name in a list whose names are unique
ByName(list, name) == CHOOSE x \in Range(list) : x.name = name

Done == pc = "done"

\* both snapshots satisfy the invariants of the data model
ValidInput == WellFormed(source) /\ WellFormed(target)

\* the pairs (source table, target table) of the same name
Matched == {m \in Range(source) \X Range(target) : m[1].name = m[2].name}

\* positions of the returned items of one of the types for one object
ItemsFor(types, table_name, object_name) ==
  {k \in 1..Len(diffs) :
     /\ diffs[k].diff_type \in types
     /\ diffs[k].table_name = table_name
     /\ diffs[k].object_name = object_name}

ColumnTypes == {"ColumnAdded", "ColumnRemoved", "ColumnModified"}

IndexTypes == {"IndexAdded", "IndexRemoved", "IndexModified"}

ForeignKeyTypes == {"ForeignKeyAdded", "ForeignKeyRemoved", "ForeignKeyModified"}

UniqueConstraintTypes ==
  {"UniqueConstraintAdded", "UniqueConstraintRemoved", "UniqueConstraintModified"}

\* same tables and, per table, the same columns, indexes, foreign keys and
\* unique constraints
StructurallyEqual(s, t) ==
  /\ Names(s) = Names(t)
  /\ \A n \in Names(s) :
       /\ Range(ByName(s, n).columns) = Range(ByName(t, n).columns)
       /\ Range(ByName(s, n).indexes) = Range(ByName(t, n).indexes)
       /\ Range(ByName(s, n).foreign_keys) = Range(ByName(t, n).foreign_keys)
       /\ Range(ByName(s, n).unique_constraints)
            = Range(ByName(t, n).unique_constraints)

\* ------------------------------------------------------------------------
\* C1: comparing a snapshot with a structurally equal one (same tables and,
\* per table, equal columns, indexes, foreign keys and unique constraints,
\* all names unique) returns the empty list.
\* ------------------------------------------------------------------------
C1_IdenticalSchemasNoDiff ==
  (Done /\ ValidInput /\ StructurallyEqual(source, target)) => diffs = <<>>

\* two equal tables with children, listed in another order in the target
C1_Witness ==
  /\ Done /\ ValidInput /\ StructurallyEqual(source, target)
  /\ Len(source) = 2 /\ source # target
  /\ \A i \in 1..Len(source) : source[i].columns # <<>> /\ source[i].foreign_keys # <<>>
  /\ diffs = <<>>

\* two empty snapshots
C1_WitnessEmpty == Done /\ source = <<>> /\ target = <<>> /\ diffs = <<>>

\* ------------------------------------------------------------------------
\* Applying a diff list to a snapshot
\* ------------------------------------------------------------------------
KindOf(diff_type) ==
  CASE diff_type \in ColumnTypes -> "columns"
    [] diff_type \in IndexTypes -> "indexes"
    [] diff_type \in ForeignKeyTypes -> "foreign_keys"
    [] diff_type \in UniqueConstraintTypes -> "unique_constraints"

Children(table, kind) ==
  CASE kind = "columns" -> table.columns
    [] kind = "indexes" -> table.indexes
    [] kind = "foreign_keys" -> table.foreign_keys
    [] kind = "unique_constraints" -> table.unique_constraints

WithChildren(table, kind, list) ==
  CASE kind = "columns" -> [table EXCEPT !.columns = list]
    [] kind = "indexes" -> [table EXCEPT !.indexes = list]
    [] kind = "foreign_keys" -> [table EXCEPT !.foreign_keys = list]
    [] kind = "unique_constraints" -> [table EXCEPT !.unique_constraints = list]

RemoveByName(list, name) == SelectSeq(list, LAMBDA x : x.name # name)

ReplaceByName(list, obj) ==
  [i \in 1..Len(list) |-> IF list[i].name = obj.name THEN obj ELSE list[i]]

\* the children of one kind of a table after one child item
ApplyToChildren(list, source_list, item) ==
  LET name == Unwrap(item.object_name)
  IN  CASE item.diff_type \in {"ColumnAdded", "IndexAdded", "ForeignKeyAdded",
                               "UniqueConstraintAdded"}
             -> Append(list, ByName(source_list, name))
        [] item.diff_type \in {"ColumnRemoved", "IndexRemoved", "ForeignKeyRemoved",
                               "UniqueConstraintRemoved"}
             -> RemoveByName(list, name)
        [] OTHER -> ReplaceByName(list, ByName(source_list, name))

\* the snapshot after one item: TableAdded inserts the source table,
\* TableRemoved deletes the table, a child item edits the children of its table
ApplyItem(snapshot, item) ==
  IF item.diff_type = "TableAdded"
    THEN Append(snapshot, ByName(source, item.table_name))
  ELSE IF item.diff_type = "TableRemoved"
    THEN RemoveByName(snapshot, item.table_name)
  ELSE LET kind == KindOf(item.diff_type)
           source_list == Children(ByName(source, item.table_name), kind)
       IN  [i \in 1..Len(snapshot) |->
              IF snapshot[i].name = item.table_name
                THEN WithChildren(snapshot[i], kind,
                       ApplyToChildren(Children(snapshot[i], kind), source_list, item))
                ELSE snapshot[i]]

RECURSIVE ApplyAll(_, _)
\* the snapshot after the items in list order
ApplyAll(snapshot, items) ==
  IF items = <<>> THEN snapshot
  ELSE ApplyAll(ApplyItem(snapshot, Head(items)), Tail(items))

\* a foreign key or unique constraint of a matched table that both sides
\* hold under one name with different content
HasModifiedConstraint ==
  \E m \in Matched :
    \/ \E f \in Range(m[1].foreign_keys), g \in Range(m[2].foreign_keys) :
         f.name = g.name /\ f # g
    \/ \E u \in Range(m[1].unique_constraints), w \in Range(m[2].unique_constraints) :
         u.name = w.name /\ u # w

\* ------------------------------------------------------------------------
\* C2: applying the returned items to the target in list order yields a
\* snapshot structurally equal to the source (unique names).
\* ------------------------------------------------------------------------
C2_DiffTransformsTargetIntoSource ==
  (Done /\ ValidInput) => StructurallyEqual(source, ApplyAll(target, diffs))

\* what the code does achieve: the transformation whenever no foreign key or
\* unique constraint changed under its name
C2_HoldsWithoutModifiedConstraint ==
  (Done /\ ValidInput /\ ~HasModifiedConstraint)
    => StructurallyEqual(source, ApplyAll(target, diffs))

\* ------------------------------------------------------------------------
\* C3: a foreign key of a matched table held by both sides under one name
\* with different content yields exactly one item, a ForeignKeyModified
\* whose sql is the foreign-key drop followed by the foreign-key add.
\* ------------------------------------------------------------------------
C3_ForeignKeyModifiedEmitted ==
  (Done /\ ValidInput) =>
    \A m \in Matched :
      \A f \in Range(m[1].foreign_keys), g \in Range(m[2].foreign_keys) :
        (f.name = g.name /\ f # g) =>
          /\ Cardinality(ItemsFor(ForeignKeyTypes, m[1].name, Some(f.name))) = 1
          /\ \A k \in ItemsFor(ForeignKeyTypes, m[1].name, Some(f.name)) :
               /\ diffs[k].diff_type = "ForeignKeyModified"
               /\ diffs[k].sql =
                    generate_drop_foreign_key(sql_gen, m[1].name, f.name) \o <<"\n">>
                      \o generate_add_foreign_key(sql_gen, m[1].name, f)

\* ------------------------------------------------------------------------
\* C4: a unique constraint of a matched table held by both sides under one
\* name with another column sequence yields exactly one item, a
\* UniqueConstraintModified whose sql is the unique drop followed by the
\* unique add.
\* ------------------------------------------------------------------------
C4_UniqueConstraintModifiedEmitted ==
  (Done /\ ValidInput) =>
    \A m \in Matched :
      \A u \in Range(m[1].unique_constraints), w \in Range(m[2].unique_constraints) :
        (u.name = w.name /\ u.columns # w.columns) =>
          /\ Cardinality(ItemsFor(UniqueConstraintTypes, m[1].name, Some(u.name))) = 1
          /\ \A k \in ItemsFor(UniqueConstraintTypes, m[1].name, Some(u.name)) :
               /\ diffs[k].diff_type = "UniqueConstraintModified"
               /\ diffs[k].sql =
                    generate_drop_unique(sql_gen, m[1].name, u.name) \o <<"\n">>
                      \o generate_add_unique(sql_gen, m[1].name, u)

\* ------------------------------------------------------------------------
\* C5: with unique table names, every table of the source that the target
\* lacks yields exactly one TableAdded item, with that table name, no object
\* name and sql = generate_create_table of the source table; there is no
\* TableAdded item for any other table.
\* ------------------------------------------------------------------------
C5_TableAddedPerNewTable ==
  (Done /\ UniqueNames(source) /\ UniqueNames(target)) =>
    /\ \A t \in Range(source) :
         t.name \notin Names(target) =>
           \E k \in 1..Len(diffs) :
             /\ {j \in 1..Len(diffs) : diffs[j].diff_type = "TableAdded"
                                       /\ diffs[j].table_name = t.name} = {k}
             /\ diffs[k].object_name = None
             /\ diffs[k].sql = generate_create_table(sql_gen, t)
    /\ \A k \in 1..Len(diffs) :
         diffs[k].diff_type = "TableAdded"
           => diffs[k].table_name \in Names(source) \ Names(target)

\* two tables added next to a table both sides hold
C5_Witness ==
  /\ Done /\ UniqueNames(source) /\ UniqueNames(target)
  /\ Cardinality(Names(source) \ Names(target)) = 2
  /\ Names(source) \cap Names(target) # {}
  /\ Cardinality({k \in 1..Len(diffs) : diffs[k].diff_type = "TableAdded"}) = 2

\* ------------------------------------------------------------------------
\* C6: with unique table names, every table of the target that the source
\* lacks yields exactly one TableRemoved item, with that table name, no
\* object name and sql = generate_drop_table of the name; there is no
\* TableRemoved item for any other table.
\* ------------------------------------------------------------------------
C6_TableRemovedPerOldTable ==
  (Done /\ UniqueNames(source) /\ UniqueNames(target)) =>
    /\ \A t \in Range(target) :
         t.name \notin Names(source) =>
           \E k \in 1..Len(diffs) :
             /\ {j \in 1..Len(diffs) : diffs[j].diff_type = "TableRemoved"
                                       /\ diffs[j].table_name = t.name} = {k}
             /\ diffs[k].object_name = None
             /\ diffs[k].sql = generate_drop_table(sql_gen, t.name)
    /\ \A k \in 1..Len(diffs) :
         diffs[k].diff_type = "TableRemoved"
           => diffs[k].table_name \in Names(target) \ Names(source)

\* two tables removed next to a table both sides hold
C6_Witness ==
  /\ Done /\ UniqueNames(source) /\ UniqueNames(target)
  /\ Cardinality(Names(target) \ Names(source)) = 2
  /\ Names(source) \cap Names(target) # {}
  /\ Cardinality({k \in 1..Len(diffs) : diffs[k].diff_type = "TableRemoved"}) = 2

\* exactly one item of the type for the object, and its sql is the given one
OneItemWithSql(type, table_name, name, sql) ==
  \E k \in 1..Len(diffs) :
    /\ ItemsFor({type}, table_name, Some(name)) = {k}
    /\ diffs[k].sql = sql

\* ------------------------------------------------------------------------
\* C7: for every matched table and every child kind, each source object
\* whose name the target table lacks yields exactly one Added item of the
\* kind, with the table name and the object name, whose sql is the
\* generator's add operation applied to the table name and the source object.
\* ------------------------------------------------------------------------
C7_AddedPerNewChild ==
  (Done /\ ValidInput) =>
    \A m \in Matched :
      /\ \A c \in Range(m[1].columns) :
           c.name \notin Names(m[2].columns) =>
             OneItemWithSql("ColumnAdded", m[1].name, c.name,
                            generate_add_column(sql_gen, m[1].name, c))
      /\ \A x \in Range(m[1].indexes) :
           x.name \notin Names(m[2].indexes) =>
             OneItemWithSql("IndexAdded", m[1].name, x.name,
                            generate_add_index(sql_gen, m[1].name, x))
      /\ \A f \in Range(m[1].foreign_keys) :
           f.name \notin Names(m[2].foreign_keys) =>
             OneItemWithSql("ForeignKeyAdded", m[1].name, f.name,
                            generate_add_foreign_key(sql_gen, m[1].name, f))
      /\ \A u \in Range(m[1].unique_constraints) :
           u.name \notin Names(m[2].unique_constraints) =>
             OneItemWithSql("UniqueConstraintAdded", m[1].name, u.name,
                            generate_add_unique(sql_gen, m[1].name, u))

\* a matched table that gains a child of every kind
C7_Witness ==
  /\ Done /\ ValidInput
  /\ \E m \in Matched :
       /\ Names(m[1].columns) \ Names(m[2].columns) # {}
       /\ Names(m[1].indexes) \ Names(m[2].indexes) # {}
       /\ Names(m[1].foreign_keys) \ Names(m[2].foreign_keys) # {}
       /\ Names(m[1].unique_constraints) \ Names(m[2].unique_constraints) # {}
       /\ \A type \in {"ColumnAdded", "IndexAdded", "ForeignKeyAdded",
                       "UniqueConstraintAdded"} :
            \E k \in 1..Len(diffs) :
              diffs[k].diff_type = type /\ diffs[k].table_name = m[1].name

\* ------------------------------------------------------------------------
\* C8: for every matched table and every child kind, each target object
\* whose name the source table lacks yields exactly one Removed item of the
\* kind, with the table name and the object name, whose sql is the
\* generator's drop operation applied to the table name and the object name.
\* ------------------------------------------------------------------------
C8_RemovedPerOldChild ==
  (Done /\ ValidInput) =>
    \A m \in Matched :
      /\ \A c \in Range(m[2].columns) :
           c.name \notin Names(m[1].columns) =>
             OneItemWithSql("ColumnRemoved", m[1].name, c.name,
                            generate_drop_column(sql_gen, m[1].name, c.name))
      /\ \A x \in Range(m[2].indexes) :
           x.name \notin Names(m[1].indexes) =>
             OneItemWithSql("IndexRemoved", m[1].name, x.name,
                            generate_drop_index(sql_gen, m[1].name, x.name))
      /\ \A f \in Range(m[2].foreign_keys) :
           f.name \notin Names(m[1].foreign_keys) =>
             OneItemWithSql("ForeignKeyRemoved", m[1].name, f.name,
                            generate_drop_foreign_key(sql_gen, m[1].name, f.name))
      /\ \A u \in Range(m[2].unique_constraints) :
           u.name \notin Names(m[1].unique_constraints) =>
             OneItemWithSql("UniqueConstraintRemoved", m[1].name, u.name,
                            generate_drop_unique(sql_gen, m[1].name, u.name))

\* a matched table that loses a child of every kind
C8_Witness ==
  /\ Done /\ ValidInput
  /\ \E m \in Matched :
       /\ Names(m[2].columns) \ Names(m[1].columns) # {}
       /\ Names(m[2].indexes) \ Names(m[1].indexes) # {}
       /\ Names(m[2].foreign_keys) \ Names(m[1].foreign_keys) # {}
       /\ Names(m[2].unique_constraints) \ Names(m[1].unique_constraints) # {}
       /\ \A type \in {"ColumnRemoved", "IndexRemoved", "ForeignKeyRemoved",
                       "UniqueConstraintRemoved"} :
            \E k \in 1..Len(diffs) :
              diffs[k].diff_type = type /\ diffs[k].table_name = m[1].name

\* ------------------------------------------------------------------------
\* C9: a column that a matched table holds on both sides under one name
\* yields exactly one ColumnModified item when a field differs (data_type,
\* nullable, default_value, auto_increment, comment or ordinal_position), no
\* item when all fields are equal, and never a ColumnAdded or ColumnRemoved.
\* ------------------------------------------------------------------------
C9_ColumnModifiedIffFieldDiffers ==
  (Done /\ ValidInput) =>
    \A m \in Matched :
      \A c \in Range(m[1].columns), d \in Range(m[2].columns) :
        c.name = d.name =>
          /\ ItemsFor({"ColumnAdded", "ColumnRemoved"}, m[1].name, Some(c.name)) = {}
          /\ Cardinality(ItemsFor({"ColumnModified"}, m[1].name, Some(c.name)))
               = (IF    c.data_type # d.data_type
                     \/ c.nullable # d.nullable
                     \/ c.default_value # d.default_value
                     \/ c.auto_increment # d.auto_increment
                     \/ c.comment # d.comment
                     \/ c.ordinal_position # d.ordinal_position
                  THEN 1 ELSE 0)

\* a column that differs in its ordinal position only, reported as modified
C9_Witness ==
  /\ Done /\ ValidInput
  /\ \E m \in Matched :
       \E c \in Range(m[1].columns), d \in Range(m[2].columns) :
         /\ c.name = d.name
         /\ c.ordinal_position # d.ordinal_position
         /\ [c EXCEPT !.ordinal_position = d.ordinal_position] = d
         /\ Cardinality(ItemsFor({"ColumnModified"}, m[1].name, Some(c.name))) = 1

\* a column equal on both sides, next to a modified one, reported by no item
C9_WitnessEqual ==
  /\ Done /\ ValidInput /\ diffs # <<>>
  /\ \E m \in Matched :
       \E c \in Range(m[1].columns) :
         /\ c \in Range(m[2].columns)
         /\ ItemsFor(ColumnTypes, m[1].name, Some(c.name)) = {}

\* ------------------------------------------------------------------------
\* C10: an index that a matched table holds on both sides under one name
\* with different fields (columns, unique or index_type) yields exactly one
\* IndexModified item whose sql is generate_drop_index, a newline, then
\* generate_add_index of the source index, and no IndexAdded or IndexRemoved.
\* ------------------------------------------------------------------------
C10_IndexModifiedDropThenAdd ==
  (Done /\ ValidInput) =>
    \A m \in Matched :
      \A x \in Range(m[1].indexes), y \in Range(m[2].indexes) :
        (/\ x.name = y.name
         /\ (x.columns # y.columns \/ x.unique # y.unique
               \/ x.index_type # y.index_type)) =>
          /\ ItemsFor({"IndexAdded", "IndexRemoved"}, m[1].name, Some(x.name)) = {}
          /\ OneItemWithSql("IndexModified", m[1].name, x.name,
                            generate_drop_index(sql_gen, m[1].name, x.name)
                              \o <<"\n">>
                              \o generate_add_index(sql_gen, m[1].name, x))

\* an index whose unique flag alone changed, reported as modified
C10_Witness ==
  /\ Done /\ ValidInput
  /\ \E m \in Matched :
       \E x \in Range(m[1].indexes), y \in Range(m[2].indexes) :
         /\ x.name = y.name /\ x.unique # y.unique
         /\ x.columns = y.columns /\ x.index_type = y.index_type
         /\ Cardinality(ItemsFor({"IndexModified"}, m[1].name, Some(x.name))) = 1

\* ------------------------------------------------------------------------
\* Vocabulary of the ordering properties
\* ------------------------------------------------------------------------
\* a decimal numeral without sign or leading zero
IsDecimal(str) ==
  /\ Len(str) >= 1
  /\ \A i \in 1..Len(str) : \E v \in 0..9 : Digits[v + 1] = str[i]
  /\ Len(str) > 1 => str[1] # "0"

DigitValue(d) == CHOOSE v \in 0..9 : Digits[v + 1] = d

RECURSIVE DecimalValue(_)
\* the number a decimal numeral denotes
DecimalValue(str) ==
  IF Len(str) = 1 THEN DigitValue(str[1])
  ELSE 10 * DecimalValue(SubSeq(str, 1, Len(str) - 1)) + DigitValue(str[Len(str)])

\* 0 for TableAdded, 1 for TableRemoved, 2 for the items of matched tables
LevelRank(diff_type) ==
  CASE diff_type = "TableAdded" -> 0
    [] diff_type = "TableRemoved" -> 1
    [] OTHER -> 2

\* columns, then indexes, then foreign keys, then unique constraints
KindRank(diff_type) ==
  CASE diff_type \in ColumnTypes -> 0
    [] diff_type \in IndexTypes -> 1
    [] diff_type \in ForeignKeyTypes -> 2
    [] diff_type \in UniqueConstraintTypes -> 3

RemovedTypes ==
  {"ColumnRemoved", "IndexRemoved", "ForeignKeyRemoved", "UniqueConstraintRemoved"}

\* the position of a name in a list whose names are unique
PosOf(list, name) == CHOOSE i \in 1..Len(list) : list[i].name = name

ChildItems == {k \in 1..Len(diffs) : LevelRank(diffs[k].diff_type) = 2}

\* the table names of the items of one type, in list order
TableNamesOf(type) ==
  LET picked == SelectSeq(diffs, LAMBDA d : d.diff_type = type)
  IN  [i \in 1..Len(picked) |-> picked[i].table_name]

\* the names of a list that another list lacks, in list order
NamesMissingFrom(list, other) ==
  LET picked == SelectSeq(list, LAMBDA x : x.name \notin Names(other))
  IN  [i \in 1..Len(picked) |-> picked[i].name]

\* the position, in its own side's list, of the object a child item is about:
\* the target table's list for a Removed item, the source table's otherwise
ObjectPos(item) ==
  LET kind == KindOf(item.diff_type)
      side == IF item.diff_type \in RemovedTypes THEN target ELSE source
  IN  PosOf(Children(ByName(side, item.table_name), kind), Unwrap(item.object_name))

\* ------------------------------------------------------------------------
\* C11: the ids of the returned items, in list order, are the decimal strings
\* of 1, 2, ..., n, whatever the inputs and the diff kinds.
\* ------------------------------------------------------------------------
C11_IdsAreOneToN ==
  Done => \A k \in 1..Len(diffs) :
            IsDecimal(diffs[k].id) /\ DecimalValue(diffs[k].id) = k

\* a call that returns table items and the items of several matched tables,
\* more than nine in all
C11_Witness ==
  /\ Done /\ Len(diffs) > 12
  /\ \E k \in 1..Len(diffs) : diffs[k].diff_type = "TableAdded"
  /\ Cardinality({diffs[k].table_name : k \in ChildItems}) >= 2
  /\ Cardinality({KindRank(diffs[k].diff_type) : k \in ChildItems}) = 4
  /\ diffs[Len(diffs)].id = to_string(Len(diffs))

\* ------------------------------------------------------------------------
\* C12: every TableAdded item precedes every TableRemoved item, which
\* precedes every child item; TableAdded items follow the source list,
\* TableRemoved items the target list, and the blocks of the matched tables
\* the source list.
\* ------------------------------------------------------------------------
C12_TableLevelOrder ==
  Done =>
    /\ \A k, l \in 1..Len(diffs) :
         k < l => LevelRank(diffs[k].diff_type) <= LevelRank(diffs[l].diff_type)
    /\ (UniqueNames(source) /\ UniqueNames(target)) =>
         /\ TableNamesOf("TableAdded") = NamesMissingFrom(source, target)
         /\ TableNamesOf("TableRemoved") = NamesMissingFrom(target, source)
         /\ \A k, l \in ChildItems :
              k < l => PosOf(source, diffs[k].table_name)
                         <= PosOf(source, diffs[l].table_name)

\* a call that returns items of all three levels
C12_Witness ==
  /\ Done /\ UniqueNames(source) /\ UniqueNames(target)
  /\ Len(TableNamesOf("TableAdded")) = 1
  /\ Len(TableNamesOf("TableRemoved")) = 1
  /\ ChildItems # {}

\* two tables added and two tables removed, each pair in its list's order
C12_WitnessTables ==
  /\ Done /\ UniqueNames(source) /\ UniqueNames(target)
  /\ \/ Len(TableNamesOf("TableAdded")) = 2 /\ Len(TableNamesOf("TableRemoved")) = 1
     \/ Len(TableNamesOf("TableAdded")) = 1 /\ Len(TableNamesOf("TableRemoved")) = 2

\* two matched tables with items that the target lists in the other order
C12_WitnessBlocks ==
  /\ Done /\ UniqueNames(source) /\ UniqueNames(target)
  /\ Cardinality({diffs[k].table_name : k \in ChildItems}) = 2
  /\ \E m, n \in Matched :
       /\ PosOf(source, m[1].name) < PosOf(source, n[1].name)
       /\ PosOf(target, m[1].name) > PosOf(target, n[1].name)

\* ------------------------------------------------------------------------
\* C13: the items of a matched table form one contiguous block: column items,
\* then index items, then foreign-key items, then unique-constraint items;
\* within the index, foreign-key and unique-constraint groups the Added and
\* Modified items follow the source's object order and precede the Removed
\* items, which follow the target's object order.
\* ------------------------------------------------------------------------
C13_PerTableOrder ==
  (Done /\ ValidInput) =>
    /\ \A k, l, j \in ChildItems :
         (k < l /\ l < j /\ diffs[k].table_name = diffs[j].table_name)
           => diffs[l].table_name = diffs[k].table_name
    /\ \A k, l \in ChildItems :
         (k < l /\ diffs[k].table_name = diffs[l].table_name) =>
           /\ KindRank(diffs[k].diff_type) <= KindRank(diffs[l].diff_type)
           /\ (/\ KindRank(diffs[k].diff_type) = KindRank(diffs[l].diff_type)
               /\ KindRank(diffs[k].diff_type) > 0) =>
                /\ diffs[k].diff_type \in RemovedTypes
                     => diffs[l].diff_type \in RemovedTypes
                /\ (diffs[k].diff_type \in RemovedTypes
                      <=> diffs[l].diff_type \in RemovedTypes)
                     => ObjectPos(diffs[k]) < ObjectPos(diffs[l])

\* two matched tables whose blocks hold items of all four kinds, with an
\* added, a modified and a removed index
C13_Witness ==
  /\ Done /\ ValidInput
  /\ Cardinality({diffs[k].table_name : k \in ChildItems}) = 2
  /\ \A n \in {diffs[k].table_name : k \in ChildItems} :
       /\ {KindRank(diffs[k].diff_type) :
             k \in {j \in ChildItems : diffs[j].table_name = n}} = 0..3
       /\ IndexTypes \subseteq
            {diffs[k].diff_type : k \in {j \in ChildItems : diffs[j].table_name = n}}

\* ------------------------------------------------------------------------
\* C14 as claimed: the column items of a matched table are three consecutive
\* runs, all ColumnAdded (source order), then all ColumnModified (source
\* order), then all ColumnRemoved (target order).
\* ------------------------------------------------------------------------
ColumnRunRank(diff_type) ==
  CASE diff_type = "ColumnAdded" -> 0
    [] diff_type = "ColumnModified" -> 1
    [] diff_type = "ColumnRemoved" -> 2

ColumnItems == {k \in 1..Len(diffs) : diffs[k].diff_type \in ColumnTypes}

C14_ColumnsInThreeRuns ==
  (Done /\ ValidInput) =>
    \A k, l \in ColumnItems :
      (k < l /\ diffs[k].table_name = diffs[l].table_name) =>
        /\ ColumnRunRank(diffs[k].diff_type) <= ColumnRunRank(diffs[l].diff_type)
        /\ diffs[k].diff_type = diffs[l].diff_type
             => ObjectPos(diffs[k]) < ObjectPos(diffs[l])

\* ------------------------------------------------------------------------
\* C14 amended: the column items of a matched table are two consecutive
\* runs: the ColumnAdded and ColumnModified items together, in source-column
\* order (interleaved as the columns occur in the source), then all
\* ColumnRemoved items in target-column order.
\* ------------------------------------------------------------------------
C14_ColumnsSourceRunThenRemoved ==
  (Done /\ ValidInput) =>
    \A k, l \in ColumnItems :
      (k < l /\ diffs[k].table_name = diffs[l].table_name) =>
        /\ diffs[k].diff_type = "ColumnRemoved" => diffs[l].diff_type = "ColumnRemoved"
        /\ (diffs[k].diff_type = "ColumnRemoved" <=> diffs[l].diff_type = "ColumnRemoved")
             => ObjectPos(diffs[k]) < ObjectPos(diffs[l])

\* a ColumnModified item ahead of a ColumnAdded item of the same table, and
\* a ColumnRemoved item after both
C14_Witness ==
  /\ Done /\ ValidInput
  /\ \E k, l, j \in ColumnItems :
       /\ k < l /\ l < j
       /\ diffs[k].table_name = diffs[l].table_name
       /\ diffs[l].table_name = diffs[j].table_name
       /\ diffs[k].diff_type = "ColumnModified"
       /\ diffs[l].diff_type = "ColumnAdded"
       /\ diffs[j].diff_type = "ColumnRemoved"

\* ------------------------------------------------------------------------
\* Vocabulary of the execute_sync properties
\* ------------------------------------------------------------------------
ExecReturned == exec_pc = "returned"

\* the call ended on a statement the database rejected
StatementFailed ==
  ExecReturned /\ executed # <<>> /\ ~executed[Len(executed)].ok

\* sub occurs in str as a run of consecutive tokens
IsSubSeq(sub, str) ==
  \E i \in 1..(Len(str) - Len(sub) + 1) : SubSeq(str, i, i + Len(sub) - 1) = sub

\* ------------------------------------------------------------------------
\* C15: execute_sync hands the statements to the database one at a time in
\* list order, statement k only after statements 1..k-1 succeeded; after the
\* first failure nothing more is attempted and the call returns an error; it
\* returns Ok only if every statement of the list succeeded.
\* ------------------------------------------------------------------------
C15_FailFastInOrder ==
  /\ Len(executed) <= Len(sql_statements)
  /\ \A k \in 1..Len(executed) :
       /\ executed[k].sql = sql_statements[k]
       /\ k < Len(executed) => executed[k].ok
  /\ (executed # <<>> /\ ~executed[Len(executed)].ok)
       => ExecReturned /\ IsErr(exec_result)
  /\ (ExecReturned /\ exec_result = Ok)
       => /\ Len(executed) = Len(sql_statements)
          /\ \A k \in 1..Len(executed) : executed[k].ok
  /\ ExecReturned => exec_result # None

\* the second of three statements failed after the first succeeded
C15_Witness ==
  /\ StatementFailed
  /\ Len(sql_statements) = 3
  /\ Len(executed) = 2
  /\ executed[1].ok

\* three statements succeeded and the call returned Ok
C15_WitnessOk ==
  ExecReturned /\ exec_result = Ok /\ Len(executed) = 3

\* ------------------------------------------------------------------------
\* C16: when a statement fails, the error returned to the caller names the
\* failing statement by its index in the list and by its SQL text.
\* ------------------------------------------------------------------------
C16_ErrorNamesIndexAndText ==
  StatementFailed =>
    /\ IsErr(exec_result)
    /\ IsSubSeq(executed[Len(executed)].sql, exec_result[2])
    /\ \/ IsSubSeq(to_string(Len(executed)), exec_result[2])
       \/ IsSubSeq(to_string(Len(executed) - 1), exec_result[2])

\* what the returned error does carry: the SQL text of the failing statement
C16_ErrorNamesText ==
  StatementFailed =>
    /\ IsErr(exec_result)
    /\ IsSubSeq(executed[Len(executed)].sql, exec_result[2])

\* ------------------------------------------------------------------------
\* Vocabulary of the compare_databases properties
\* ------------------------------------------------------------------------
\* the calls of one compare_databases run, in the order the claim gives them
CallOrder ==
  <<"get_connection(source)", "get_connection(target)", "create(source)",
    "create(target)", "get_tables(source)", "get_tables(target)",
    "compare_schemas">>

CmdReturned == cmd_pc = "returned"

CmdReturnedOk == CmdReturned /\ Len(cmd_result) = 2 /\ cmd_result[1] = "Ok"

Invoked(call) == \E k \in 1..Len(cmd_log) : cmd_log[k].call = call

\* the generator the claim assigns to a connection's database type
GeneratorOfDbType(db_type) ==
  IF db_type = "PostgreSQL" THEN "postgres" ELSE "mysql"

\* ------------------------------------------------------------------------
\* C17: compare_databases invokes compare_schemas only after get_tables has
\* returned a snapshot for the source and then for the target; when a
\* connection lookup, a driver creation or a get_tables call fails it returns
\* an error, compare_schemas is never invoked and no DiffResult is produced.
\* ------------------------------------------------------------------------
C17_CompareOnlyAfterBothSnapshots ==
  /\ Len(cmd_log) <= Len(CallOrder)
  /\ \A k \in 1..Len(cmd_log) :
       /\ cmd_log[k].call = CallOrder[k]
       /\ k < Len(cmd_log) => cmd_log[k].ok
  /\ (Invoked("compare_schemas") \/ pc # "idle") =>
       /\ \A k \in 1..Len(cmd_log) : cmd_log[k].ok
       /\ IsSome(source_tables) /\ IsSome(target_tables)
       /\ source = Unwrap(source_tables) /\ target = Unwrap(target_tables)
  /\ (\E k \in 1..Len(cmd_log) : ~cmd_log[k].ok) =>
       /\ CmdReturned /\ IsErr(cmd_result)
       /\ ~Invoked("compare_schemas") /\ pc = "idle" /\ diffs = <<>>
  /\ CmdReturned => (IsErr(cmd_result) \/ CmdReturnedOk)
  /\ CmdReturnedOk =>
       /\ Invoked("compare_schemas") /\ pc = "done"
       /\ cmd_result[2] = DiffResult(diffs, Len(source), Len(target))

\* get_tables failed for the target after it returned a snapshot with tables
\* for the source
C17_Witness ==
  /\ CmdReturned /\ IsErr(cmd_result)
  /\ Len(cmd_log) = 6 /\ ~cmd_log[6].ok
  /\ IsSome(source_tables) /\ Unwrap(source_tables) # <<>>
  /\ target_tables = None

\* both snapshots arrived and the comparison returned items
C17_WitnessOk ==
  CmdReturnedOk /\ cmd_result[2].items # <<>>

\* ------------------------------------------------------------------------
\* C18: the SQL of every item compare_databases returns is generated by the
\* generator of the target connection's database type (MySQL or MariaDB:
\* the MySQL generator; PostgreSQL: the PostgreSQL generator), whatever the
\* database type of the source connection.
\* ------------------------------------------------------------------------
C18_TargetDialectGenerator ==
  CmdReturnedOk =>
    cmd_result[2].items =
      compare_schemas(Unwrap(source_tables), Unwrap(target_tables),
                      GeneratorOfDbType(Unwrap(target_conn)))

\* a PostgreSQL source compared with a MariaDB target, with items
C18_Witness ==
  /\ CmdReturnedOk
  /\ source_conn = Some("PostgreSQL") /\ target_conn = Some("MariaDB")
  /\ cmd_result[2].items # <<>>

\* a MySQL source compared with a PostgreSQL target, with items
C18_WitnessPostgres ==
  /\ CmdReturnedOk
  /\ source_conn = Some("MySQL") /\ target_conn = Some("PostgreSQL")
  /\ cmd_result[2].items # <<>>

\* ------------------------------------------------------------------------
\* C19: compare_schemas calls running concurrently on independent inputs do
\* not interfere under any interleaving: each returned list is numbered 1..n
\* on its own and equals the list the same call returns when it runs alone.
\* ------------------------------------------------------------------------
C19_ConcurrentCallsIndependent ==
  \A id \in DOMAIN calls :
    /\ \A k \in 1..Len(calls[id].diffs) :
         DecimalValue(calls[id].diffs[k].id) = k
    /\ calls[id].pc = "done" =>
         calls[id].diffs =
           compare_schemas(calls[id].source, calls[id].target, calls[id].sql_gen)

\* a call that returned its items while another call, on other inputs, is in
\* the middle of its third loop with items of its own
C19_Witness ==
  \E i, j \in DOMAIN calls :
    /\ i # j
    /\ calls[i].pc = "done" /\ Len(calls[i].diffs) > 1
    /\ calls[j].pc = "existing" /\ calls[j].table_idx = 2 /\ Len(calls[j].diffs) > 1
    /\ <<calls[i].source, calls[i].target>> # <<calls[j].source, calls[j].target>>

C21_AllSelected ==
  Done => \A k \in 1..Len(diffs) : diffs[k].selected = TRUE

\* a call that returns an item of each of the eleven types the comparator
\* emits
C21_Witness ==
  /\ Done
  /\ {diffs[k].diff_type : k \in 1..Len(diffs)} =
       {"TableAdded", "TableRemoved"} \cup ColumnTypes \cup IndexTypes
       \cup {"ForeignKeyAdded", "ForeignKeyRemoved",
             "UniqueConstraintAdded", "UniqueConstraintRemoved"}

\* ------------------------------------------------------------------------
\* Vocabulary of the generator properties
\* ------------------------------------------------------------------------
\* the method of gen_input was called and returned
Returned(method) == gen_input # None /\ gen_input.method = method /\ IsSome(gen_output)

\* what generator gen returned
OutputOf(gen) == Unwrap(gen_output)[gen]

DelimiterOf(gen) == IF gen = "mysql" THEN Backtick ELSE DoubleQuote

\* how often a token occurs in a string
Occurrences(str, token) == Cardinality({i \in 1..Len(str) : str[i] = token})

\* the delimiters of body stand in adjacent pairs: every maximal run of
\* delimiters has even length
InPairs(body, d) ==
  \A i \in 1..Len(body) :
    (body[i] = d /\ (i = 1 \/ body[i - 1] # d)) =>
      \E n \in 1..Len(body) :
        /\ n % 2 = 0 /\ i + n - 1 <= Len(body)
        /\ \A j \in i..(i + n - 1) : body[j] = d
        /\ (i + n > Len(body) \/ body[i + n] # d)

RECURSIVE Halved(_, _)
\* body with one delimiter of every adjacent pair taken out
Halved(body, d) ==
  IF body = <<>> THEN <<>>
  ELSE IF Len(body) >= 2 /\ body[1] = d /\ body[2] = d
    THEN <<d>> \o Halved(SubSeq(body, 3, Len(body)), d)
    ELSE <<body[1]>> \o Halved(Tail(body), d)

\* ------------------------------------------------------------------------
\* C22: quote_identifier(name) is the dialect's delimiter, then name with
\* every delimiter doubled and every other character unchanged, then the
\* delimiter; the body between the outer delimiters holds delimiters only in
\* pairs, and distinct names give distinct quoted strings.
\* ------------------------------------------------------------------------
C22_QuoteIdentifierDoubles ==
  Returned("quote_identifier") =>
    \A g \in Generators :
      LET d == DelimiterOf(g)
          out == OutputOf(g)
      IN  /\ \A i \in 1..2 :
               LET name == gen_input.names[i]
                   body == SubSeq(out[i], 2, Len(out[i]) - 1)
               IN  /\ Len(out[i]) = Len(name) + Occurrences(name, d) + 2
                   /\ out[i][1] = d /\ out[i][Len(out[i])] = d
                   /\ InPairs(body, d)
                   /\ Halved(body, d) = name
                   /\ \A ch \in NameChars \ {d} :
                        Occurrences(body, ch) = Occurrences(name, ch)
          /\ gen_input.names[1] # gen_input.names[2] => out[1] # out[2]

\* two distinct names that hold both delimiters were quoted
C22_Witness ==
  /\ Returned("quote_identifier")
  /\ gen_input.names[1] = <<Backtick, "a", DoubleQuote>>
  /\ gen_input.names[2] = <<Backtick, Backtick, "a">>
  /\ OutputOf("mysql")[1] = <<Backtick, Backtick, Backtick, "a", DoubleQuote, Backtick>>
  /\ OutputOf("postgres")[1] = <<DoubleQuote, Backtick, "a", DoubleQuote, DoubleQuote, DoubleQuote>>

\* the positions right after the occurrences of prefix in str
After(str, prefix) ==
  {i + Len(prefix) : i \in {j \in 1..(Len(str) - Len(prefix) + 1) :
                              SubSeq(str, j, j + Len(prefix) - 1) = prefix}}

\* the type and NOT NULL of one column as the PostgreSQL generator writes
\* them at position at of out
SerialOrTypeAt(out, at, col) ==
  /\ at <= Len(out)
  /\ out[at] = (IF col.auto_increment THEN "SERIAL" ELSE col.data_type[1])
  /\ col.auto_increment => (at = Len(out) \/ out[at + 1] # " NOT NULL")
  /\ (~col.auto_increment /\ ~col.nullable) =>
       /\ at < Len(out) /\ out[at + 1] = " NOT NULL"
       /\ (at + 1 = Len(out) \/ out[at + 2] # " NOT NULL")

\* ------------------------------------------------------------------------
\* C23: the PostgreSQL generate_add_column and generate_create_table write
\* an auto_increment column with the type SERIAL in place of its data_type
\* and without NOT NULL even when it is not nullable; a column that is
\* neither auto_increment nor nullable gets exactly one NOT NULL.
\* ------------------------------------------------------------------------
C23_SerialWithoutNotNull ==
  /\ Returned("generate_add_column") =>
       LET col == gen_input.column
           out == OutputOf("postgres")
           prefix == <<"ALTER TABLE ">> \o Pg_quote_identifier(gen_input.table)
                     \o <<" ADD COLUMN ">> \o Pg_quote_identifier(col.name) \o <<" ">>
       IN  /\ SubSeq(out, 1, Len(prefix)) = prefix
           /\ SerialOrTypeAt(out, Len(prefix) + 1, col)
           /\ col.auto_increment =>
                /\ Occurrences(out, " NOT NULL") = 0
                /\ Occurrences(out, col.data_type[1]) = 0
           /\ (~col.auto_increment /\ ~col.nullable) =>
                Occurrences(out, " NOT NULL") = 1
  /\ Returned("generate_create_table") =>
       LET cols == gen_input.table.columns
           out == OutputOf("postgres")
       IN  /\ \A i \in 1..Len(cols) :
                LET at == After(out, <<"  ">> \o Pg_quote_identifier(cols[i].name)
                                     \o <<" ">>)
                IN  /\ Cardinality(at) = 1
                    /\ \A n \in at : SerialOrTypeAt(out, n, cols[i])
           /\ Occurrences(out, " NOT NULL") =
                Cardinality({i \in 1..Len(cols) :
                               ~cols[i].auto_increment /\ ~cols[i].nullable})
           /\ Occurrences(out, "SERIAL") =
                Cardinality({i \in 1..Len(cols) : cols[i].auto_increment})

\* ADD COLUMN for an auto_increment column that is not nullable and has a
\* default
C23_Witness ==
  /\ Returned("generate_add_column")
  /\ gen_input.column.auto_increment /\ ~gen_input.column.nullable
  /\ IsSome(gen_input.column.default_value)
  /\ OutputOf("mysql") # OutputOf("postgres")

\* CREATE TABLE with an auto_increment column that is not nullable next to a
\* plain column that is not nullable
C23_WitnessCreateTable ==
  /\ Returned("generate_create_table")
  /\ gen_input.table.columns[1].auto_increment
  /\ ~gen_input.table.columns[1].nullable
  /\ ~gen_input.table.columns[2].auto_increment
  /\ ~gen_input.table.columns[2].nullable
  /\ IsSome(gen_input.table.primary_key)

RECURSIVE Unquoted(_, _, _)
\* a statement with every quoted identifier replaced by its unquoted name:
\* outside an identifier a delimiter opens one; inside, a doubled delimiter
\* stands for the character and a single one closes the identifier
Unquoted(str, d, inside) ==
  IF str = <<>> THEN <<>>
  ELSE IF ~inside
    THEN IF str[1] = d THEN Unquoted(Tail(str), d, TRUE)
         ELSE <<str[1]>> \o Unquoted(Tail(str), d, FALSE)
  ELSE IF Len(str) >= 2 /\ str[1] = d /\ str[2] = d
    THEN <<d>> \o Unquoted(SubSeq(str, 3, Len(str)), d, TRUE)
  ELSE IF str[1] = d THEN Unquoted(Tail(str), d, FALSE)
  ELSE <<str[1]>> \o Unquoted(Tail(str), d, TRUE)

\* the statement form generator gen returned
FormOf(gen) == Unquoted(OutputOf(gen), DelimiterOf(gen), FALSE)

\* ------------------------------------------------------------------------
\* C24: for the same table and object the MySQL and PostgreSQL generators
\* return different forms for drop-index (DROP INDEX x ON t / DROP INDEX x),
\* drop-foreign-key (DROP FOREIGN KEY / DROP CONSTRAINT) and drop-unique
\* (ALTER TABLE t DROP INDEX / DROP CONSTRAINT), while their add-foreign-key
\* and add-unique statements are equal once every quoted identifier is
\* replaced by its unquoted name.
\* ------------------------------------------------------------------------
C24_DialectDivergence ==
  /\ Returned("generate_drop_index") =>
       /\ FormOf("mysql") = <<"DROP INDEX ">> \o gen_input.name \o <<" ON ">>
                            \o gen_input.table \o <<";">>
       /\ FormOf("postgres") = <<"DROP INDEX ">> \o gen_input.name \o <<";">>
       /\ FormOf("mysql") # FormOf("postgres")
  /\ Returned("generate_drop_foreign_key") =>
       /\ FormOf("mysql") = <<"ALTER TABLE ">> \o gen_input.table
                            \o <<" DROP FOREIGN KEY ">> \o gen_input.name \o <<";">>
       /\ FormOf("postgres") = <<"ALTER TABLE ">> \o gen_input.table
                               \o <<" DROP CONSTRAINT ">> \o gen_input.name \o <<";">>
       /\ FormOf("mysql") # FormOf("postgres")
  /\ Returned("generate_drop_unique") =>
       /\ FormOf("mysql") = <<"ALTER TABLE ">> \o gen_input.table
                            \o <<" DROP INDEX ">> \o gen_input.name \o <<";">>
       /\ FormOf("postgres") = <<"ALTER TABLE ">> \o gen_input.table
                               \o <<" DROP CONSTRAINT ">> \o gen_input.name \o <<";">>
       /\ FormOf("mysql") # FormOf("postgres")
  /\ (Returned("generate_add_foreign_key") \/ Returned("generate_add_unique")) =>
       /\ FormOf("mysql") = FormOf("postgres")
       /\ OutputOf("mysql") # OutputOf("postgres")

\* a foreign key was dropped from a table whose name holds a backtick
C24_Witness ==
  /\ Returned("generate_drop_foreign_key")
  /\ gen_input.table = NameU
  /\ OutputOf("mysql") # OutputOf("postgres")

\* a foreign key over a column whose name holds a double quote was added
C24_WitnessAdd ==
  /\ Returned("generate_add_foreign_key")
  /\ gen_input.fk.columns = <<NameB>>
  /\ gen_input.table = NameU

\* ------------------------------------------------------------------------
\* C25: a ColumnModified item has the column's name as object_name, the
\* source column's data_type as source_def, the target column's data_type as
\* target_def, and as sql generate_modify_column applied to the table name
\* and the source column.
\* ------------------------------------------------------------------------
C25_ColumnModifiedFields ==
  (Done /\ ValidInput) =>
    \A k \in 1..Len(diffs) :
      diffs[k].diff_type = "ColumnModified" =>
        \E m \in Matched :
          \E c \in Range(m[1].columns), d \in Range(m[2].columns) :
            /\ c.name = d.name
            /\ diffs[k].table_name = m[1].name
            /\ diffs[k].object_name = Some(c.name)
            /\ diffs[k].source_def = Some(c.data_type)
            /\ diffs[k].target_def = Some(d.data_type)
            /\ diffs[k].sql = generate_modify_column(sql_gen, m[1].name, c)

\* a ColumnModified item for a column whose type changed, where the
\* statement for the target's definition would read otherwise
C25_Witness ==
  /\ Done /\ ValidInput
  /\ \E k \in 1..Len(diffs) :
       /\ diffs[k].diff_type = "ColumnModified"
       /\ diffs[k].source_def # diffs[k].target_def
       /\ \E m \in Matched : \E d \in Range(m[2].columns) :
            /\ diffs[k].table_name = m[1].name
            /\ diffs[k].object_name = Some(d.name)
            /\ diffs[k].sql # generate_modify_column(sql_gen, m[1].name, d)

\* the matched tables whose primary keys differ
PrimaryKeyChanged == {m \in Matched : m[1].primary_key # m[2].primary_key}

\* ------------------------------------------------------------------------
\* C26: primary keys are never diffed: two snapshots with unique names that
\* are equal in every table's columns, indexes, foreign keys and unique
\* constraints but differ in the primary key of one or more matched tables
\* (added, dropped, renamed or over other columns) yield the empty list.
\* ------------------------------------------------------------------------
C26_PrimaryKeyNeverDiffed ==
  (/\ Done /\ ValidInput
   /\ StructurallyEqual(source, target)
   /\ PrimaryKeyChanged # {}) => diffs = <<>>

\* the primary key was renamed in a table that has columns, an index, a
\* foreign key and a unique constraint
C26_Witness ==
  /\ Done /\ ValidInput /\ StructurallyEqual(source, target)
  /\ \E m \in PrimaryKeyChanged :
       /\ IsSome(m[1].primary_key) /\ IsSome(m[2].primary_key)
       /\ Unwrap(m[1].primary_key).name # Unwrap(m[2].primary_key).name
       /\ Unwrap(m[1].primary_key).columns = Unwrap(m[2].primary_key).columns
       /\ m[1].indexes # <<>> /\ m[1].foreign_keys # <<>>

\* the primary key was dropped
C26_WitnessDropped ==
  /\ Done /\ ValidInput /\ StructurallyEqual(source, target)
  /\ \E m \in PrimaryKeyChanged : m[1].primary_key = None

\* the primary key was added
C26_WitnessAddedOrWidened ==
  /\ Done /\ ValidInput /\ StructurallyEqual(source, target)
  /\ \E m \in PrimaryKeyChanged : m[2].primary_key = None
  /\ sql_gen = "postgres"

\* ------------------------------------------------------------------------
\* C27: no rename is inferred: when the source of a matched table has a
\* column a the target lacks and the target a column b the source lacks,
\* the list holds one ColumnAdded for a, one ColumnRemoved for b and no
\* ColumnModified for either, even when the two columns are equal in every
\* field other than the name.
\* ------------------------------------------------------------------------
C27_NoRenameInferred ==
  (Done /\ ValidInput) =>
    \A m \in Matched :
      \A a \in Range(m[1].columns), b \in Range(m[2].columns) :
        (a.name \notin Names(m[2].columns) /\ b.name \notin Names(m[1].columns)) =>
          /\ Cardinality(ItemsFor({"ColumnAdded"}, m[1].name, Some(a.name))) = 1
          /\ Cardinality(ItemsFor({"ColumnRemoved"}, m[1].name, Some(b.name))) = 1
          /\ ItemsFor({"ColumnModified"}, m[1].name, Some(a.name)) = {}
          /\ ItemsFor({"ColumnModified"}, m[1].name, Some(b.name)) = {}
          /\ ItemsFor({"ColumnRemoved"}, m[1].name, Some(a.name)) = {}
          /\ ItemsFor({"ColumnAdded"}, m[1].name, Some(b.name)) = {}

\* the only column of a table has another name in the target and is
\* otherwise the same
C27_Witness ==
  /\ Done /\ ValidInput
  /\ \E m \in Matched :
       /\ Len(m[1].columns) = 1 /\ Len(m[2].columns) = 1
       /\ m[1].columns[1].name # m[2].columns[1].name
       /\ [m[1].columns[1] EXCEPT !.name = m[2].columns[1].name] = m[2].columns[1]
       /\ Len(diffs) = 2

\* the entry of a name that stands last in a list
LastNamed(list, name) ==
  list[CHOOSE i \in 1..Len(list) :
         /\ list[i].name = name
         /\ \A j \in 1..Len(list) : list[j].name = name => j <= i]

\* a list holds two entries of the same name
HasDuplicate(list) == ~UniqueNames(list)

\* ------------------------------------------------------------------------
\* C28: compare_schemas returns a list on inputs with duplicate names, and
\* matching uses the later entry only: when a target table holds two columns
\* of one name, a source column of that name is compared with the later
\* target column, and the earlier one yields no item of any kind even when
\* it differs from the source column.
\* ------------------------------------------------------------------------
C28_LaterDuplicateWins ==
  (Done /\ UniqueNames(source) /\ UniqueNames(target)) =>
    \A m \in Matched :
      \A n \in Names(m[1].columns) \cap Names(m[2].columns) :
        LET later == LastNamed(m[2].columns, n)
            changed == {i \in 1..Len(m[1].columns) :
                          m[1].columns[i].name = n /\ m[1].columns[i] # later}
        IN  /\ ItemsFor({"ColumnAdded", "ColumnRemoved"}, m[1].name, Some(n)) = {}
            /\ Cardinality(ItemsFor({"ColumnModified"}, m[1].name, Some(n)))
                 = Cardinality(changed)
            /\ \A k \in ItemsFor({"ColumnModified"}, m[1].name, Some(n)) :
                 diffs[k].target_def = Some(later.data_type)

\* the target holds the column twice: first with another type, then as the
\* source has it; the list is empty
C28_Witness ==
  /\ Done /\ UniqueNames(source) /\ UniqueNames(target)
  /\ \E m \in Matched :
       /\ Len(m[1].columns) = 1 /\ Len(m[2].columns) = 2
       /\ m[2].columns[1].name = m[2].columns[2].name
       /\ m[2].columns[1] # m[1].columns[1]
       /\ m[2].columns[2] = m[1].columns[1]
  /\ diffs = <<>>

\* the target holds the column twice: first as the source has it, then with
\* another type; the list holds one ColumnModified
C28_WitnessModified ==
  /\ Done /\ UniqueNames(source) /\ UniqueNames(target)
  /\ \E m \in Matched :
       /\ Len(m[1].columns) = 1 /\ Len(m[2].columns) = 2
       /\ m[2].columns[1] = m[1].columns[1]
       /\ m[2].columns[2].name = m[1].columns[1].name
       /\ m[2].columns[2] # m[1].columns[1]
  /\ Len(diffs) = 1 /\ diffs[1].diff_type = "ColumnModified"

\* the call returned on snapshots that list a table name twice
C28_WitnessTables ==
  Done /\ HasDuplicate(source) /\ HasDuplicate(target) /\ diffs # <<>>

\* the positions of the items that name a table
ItemsOfTable(table_name) == {k \in 1..Len(diffs) : diffs[k].table_name = table_name}

\* ------------------------------------------------------------------------
\* C29: child objects are diffed for matched tables only: a table of just
\* one snapshot yields its single TableAdded or TableRemoved item and
\* nothing else; every column, index, foreign-key or unique-constraint item
\* names a table of both snapshots and has an object_name, and TableAdded
\* and TableRemoved items have none.
\* ------------------------------------------------------------------------
C29_ChildItemsOnlyForMatchedTables ==
  Done =>
    /\ \A k \in 1..Len(diffs) :
         IF diffs[k].diff_type \in {"TableAdded", "TableRemoved"}
           THEN diffs[k].object_name = None
           ELSE /\ diffs[k].diff_type \in ColumnTypes \cup IndexTypes
                     \cup ForeignKeyTypes \cup UniqueConstraintTypes
                /\ diffs[k].table_name \in Names(source) \cap Names(target)
                /\ IsSome(diffs[k].object_name)
    /\ (UniqueNames(source) /\ UniqueNames(target)) =>
         /\ \A n \in Names(source) \ Names(target) :
              \E k \in 1..Len(diffs) :
                ItemsOfTable(n) = {k} /\ diffs[k].diff_type = "TableAdded"
         /\ \A n \in Names(target) \ Names(source) :
              \E k \in 1..Len(diffs) :
                ItemsOfTable(n) = {k} /\ diffs[k].diff_type = "TableRemoved"

\* a new table and an old table, both with children of every kind, next to
\* a matched table with child items
C29_Witness ==
  /\ Done /\ UniqueNames(source) /\ UniqueNames(target)
  /\ \E n \in Names(source) \ Names(target) :
       /\ ByName(source, n).columns # <<>> /\ ByName(source, n).indexes # <<>>
       /\ ByName(source, n).foreign_keys # <<>>
       /\ ByName(source, n).unique_constraints # <<>>
  /\ \E n \in Names(target) \ Names(source) :
       ByName(target, n).columns # <<>> /\ ByName(target, n).indexes # <<>>
  /\ ChildItems # {}

\* ------------------------------------------------------------------------
\* C30: compare_databases, execute_sync and list_databases hold the
\* config-store mutex only while they read connection profiles and release
\* it before they open a database connection, fetch a schema or execute a
\* statement; while one of them is inside a database operation another
\* command can acquire the mutex, and no command waits on the mutex while
\* holding it.
\* ------------------------------------------------------------------------
C30_MutexOnlyAroundProfileReads ==
  /\ \A t \in DOMAIN tasks : (store_lock = Some(t)) <=> (tasks[t].pc = "locked")
  /\ Cardinality({t \in DOMAIN tasks : tasks[t].pc = "locked"}) <= 1
  /\ \A t \in DOMAIN tasks :
       tasks[t].pc = "database" =>
         /\ tasks[t].cmd \in DatabaseCommands
         /\ tasks[t].reads = 0
         /\ store_lock # Some(t)
         /\ (\A u \in DOMAIN tasks : tasks[u].pc # "locked") => store_lock = None
  /\ \A t \in DOMAIN tasks : tasks[t].pc = "start" => store_lock # Some(t)
  /\ (\A t \in DOMAIN tasks : tasks[t].pc \in {"start", "returned"})
       => store_lock = None

\* save_connection holds the mutex while compare_databases awaits a
\* database operation
C30_Witness ==
  \E t, u \in DOMAIN tasks :
    /\ tasks[t].cmd = "compare_databases" /\ tasks[t].pc = "database"
    /\ tasks[t].db_ops = 2
    /\ tasks[u].cmd = "save_connection" /\ tasks[u].pc = "locked"
    /\ store_lock = Some(u)

\* execute_sync is among its statements while list_databases reads its
\* profile under the mutex
C30_WitnessExecuteSync ==
  \E t, u \in DOMAIN tasks :
    /\ tasks[t].cmd = "execute_sync" /\ tasks[t].pc = "database"
    /\ tasks[u].cmd = "list_databases" /\ tasks[u].pc = "locked"

====
